---------------------------- MODULE Spec2Model ----------------------------
(***************************************************************************)
(* A model of the SEO / GEO audit tool: the SeoAnalyzer service (rule      *)
(* based SEO and GEO checks, the twelve AI-visibility factor assessors,    *)
(* the recommendation generator and the two-site comparator).              *)
(*                                                                         *)
(* Text is modelled as text: a string is a TLA+ string, a character is a   *)
(* string of length one, String.includes is a substring search and every   *)
(* regular expression of the source is written as a sequence of items      *)
(* interpreted by a small backtracking matcher (Match) that follows the    *)
(* ECMAScript priorities (greedy / lazy quantifiers, ordered               *)
(* alternatives, leftmost non-overlapping global matches).                 *)
(*                                                                         *)
(* The input alphabet is ASCII without the backquote: TLA+ strings hold no *)
(* other characters.  The non-ASCII bullets of three character classes of  *)
(* the source and its two backquote patterns cannot match such an input    *)
(* and are not written down below.                                         *)
(***************************************************************************)
EXTENDS Integers, Sequences, FiniteSets, TLC

VARIABLES
    op,      \* the SeoAnalyzer method that has been called ("none" before the call)
    pages,   \* the WebsiteData records of the request: one, or two to compare
    year,    \* the year the clock showed when the call read it (0: not read)
    args,    \* the arguments of the call besides the records
    out,     \* the value the call returned
    calls,   \* the number of calls the shared SeoAnalyzer has served before
    kept,    \* the first call the SeoAnalyzer served, if it has served one
    requests,          \* the server: the POST requests received, each with the
                       \*   position of its handler and its response
    reports,           \* the storage: its Map from id to AuditReport
    currentId,         \* the storage: the id of the next report
    isAnalyzing,       \* the Home page: its seven useState values
    isComparing,
    currentUrl,
    compareUrls,
    auditReport,
    comparisonResult,
    activeTab,
    inFlight           \* the forms of the Home page: the requests they wait for

analyzerVars == <<op, pages, year, args, out, calls, kept>>
serverVars == <<requests, reports, currentId>>
homeVars ==
    <<isAnalyzing, isComparing, currentUrl, compareUrls, auditReport,
      comparisonResult, activeTab, inFlight>>

vars == <<analyzerVars, serverVars, homeVars>>

\* null, as a record so that it compares with reports and results
Null == [null |-> TRUE]

----------------------------------------------------------------------------
(* Integers *)

Min2(a, b) == IF a <= b THEN a ELSE b
Max2(a, b) == IF a >= b THEN a ELSE b
Abs(a) == IF a < 0 THEN -a ELSE a

MinOf(S) == CHOOSE x \in S : \A y \in S : x <= y
MaxOf(S) == -MinOf({-x : x \in S})


----------------------------------------------------------------------------
(* Strings *)

CharAt(s, i) == SubSeq(s, i, i)

LowerOf ==
    [A |-> "a", B |-> "b", C |-> "c", D |-> "d", E |-> "e", F |-> "f",
     G |-> "g", H |-> "h", I |-> "i", J |-> "j", K |-> "k", L |-> "l",
     M |-> "m", N |-> "n", O |-> "o", P |-> "p", Q |-> "q", R |-> "r",
     S |-> "s", T |-> "t", U |-> "u", V |-> "v", W |-> "w", X |-> "x",
     Y |-> "y", Z |-> "z"]

UpperChars == DOMAIN LowerOf
LowerChars == {LowerOf[c] : c \in UpperChars}
DigitChars == {"0", "1", "2", "3", "4", "5", "6", "7", "8", "9"}
WordChars  == UpperChars \cup LowerChars \cup DigitChars \cup {"_"}
SpaceChars == {" ", "\t", "\n", "\r", "\f"}
LineTerminators == {"\n", "\r"}

\* String.prototype.toLowerCase, by halves (the recursion stays shallow)
RECURSIVE toLowerCase(_)
toLowerCase(s) ==
    IF Len(s) = 0 THEN ""
    ELSE IF Len(s) = 1 THEN (IF s \in UpperChars THEN LowerOf[s] ELSE s)
    ELSE LET h == Len(s) \div 2
         IN  toLowerCase(SubSeq(s, 1, h)) \o toLowerCase(SubSeq(s, h + 1, Len(s)))

\* String.prototype.includes
includes(s, p) ==
    \E i \in 1..(Len(s) - Len(p) + 1) : SubSeq(s, i, i + Len(p) - 1) = p

\* String.prototype.startsWith
startsWith(s, p) == Len(p) <= Len(s) /\ SubSeq(s, 1, Len(p)) = p

\* String.prototype.trim
trim(s) ==
    LET ink == {i \in 1..Len(s) : CharAt(s, i) \notin SpaceChars}
    IN  IF ink = {} THEN "" ELSE SubSeq(s, MinOf(ink), MaxOf(ink))

\* String.prototype.split with a string separator
RECURSIVE split(_, _)
split(s, sep) ==
    LET hits == {i \in 1..(Len(s) - Len(sep) + 1) :
                     SubSeq(s, i, i + Len(sep) - 1) = sep}
    IN  IF hits = {} THEN <<s>>
        ELSE LET i == MinOf(hits)
             IN  <<SubSeq(s, 1, i - 1)>>
                     \o split(SubSeq(s, i + Len(sep), Len(s)), sep)

\* Array.prototype.join
RECURSIVE join(_, _)
join(seq, sep) ==
    IF Len(seq) = 0 THEN ""
    ELSE IF Len(seq) = 1 THEN seq[1]
    ELSE seq[1] \o sep \o join(Tail(seq), sep)

----------------------------------------------------------------------------
(* Regular expressions.  A regular expression is a sequence of items:      *)
(*   Lit(w)         the literal w                                          *)
(*   Alt(ws)        (?:w1|w2|...), the alternatives tried in order         *)
(*   Cls(...)       a character class with a quantifier {min,max}          *)
(*   Grp(sub, ...)  (?:sub) with a greedy quantifier                       *)
(*   Bol, Eol, Wb   the assertions ^ and $ (flag m) and \b                 *)
(* With flag i the expression is written in lower case and is matched      *)
(* against the lower-cased subject.                                        *)

Lit(w) == [t |-> "lit", w |-> w]
Alt(ws) == [t |-> "alt", ws |-> ws]
Cls(set, neg, min, max, lazy) ==
    [t |-> "cls", set |-> set, neg |-> neg, min |-> min, max |-> max, lazy |-> lazy]
Grp(sub, min, max) == [t |-> "grp", sub |-> sub, min |-> min, max |-> max]
Bol == [t |-> "bol"]
Eol == [t |-> "eol"]
Wb  == [t |-> "wb"]

One(set)      == Cls(set, FALSE, 1, 1, FALSE)       \* [set]
Opt(set)      == Cls(set, FALSE, 0, 1, FALSE)       \* [set]?
Plus(set)     == Cls(set, FALSE, 1, -1, FALSE)      \* [set]+
Star(set)     == Cls(set, FALSE, 0, -1, FALSE)      \* [set]*
Times(set, n) == Cls(set, FALSE, n, n, FALSE)       \* [set]{n}
PlusNot(set)  == Cls(set, TRUE, 1, -1, FALSE)       \* [^set]+
LazyNot(set)  == Cls(set, TRUE, 0, -1, TRUE)        \* [^set]*?   ( .*? is [^\n]*? )

InClass(c, it) == (c \in it.set) # it.neg

IsWordAt(s, i) == i >= 1 /\ i <= Len(s) /\ CharAt(s, i) \in WordChars

\* the position after the longest run of class characters in s[i..last],
\* scanned a window at a time
RECURSIVE RunTo(_, _, _, _)
RunTo(s, i, last, it) ==
    LET w   == Min2(last, i + 15)
        bad == {j \in i..w : ~InClass(CharAt(s, j), it)}
    IN  IF bad # {} THEN MinOf(bad)
        ELSE IF w >= last THEN last + 1
        ELSE RunTo(s, w + 1, last, it)

\* the position after the longest run of class characters from i (at most max)
RunEnd(s, i, it) ==
    RunTo(s, i, IF it.max < 0 THEN Len(s) ELSE Min2(Len(s), i + it.max - 1), it)

\* Match(re, k, s, i): the items re[k..] matched at position i of s, with
\* backtracking; the position after the match, or 0 when there is none.
RECURSIVE Match(_, _, _, _)
RECURSIVE MatchAlt(_, _, _, _, _)
RECURSIVE GrpEnds(_, _, _, _)

MatchAlt(re, k, s, i, a) ==
    LET it == re[k]
    IN  IF a > Len(it.ws) THEN 0
        ELSE LET w == it.ws[a]
                 e == IF i + Len(w) - 1 <= Len(s) /\ SubSeq(s, i, i + Len(w) - 1) = w
                      THEN Match(re, k + 1, s, i + Len(w)) ELSE 0
             IN  IF e # 0 THEN e ELSE MatchAlt(re, k, s, i, a + 1)

\* the positions after 0, 1, 2, ... repetitions of the group, in order
GrpEnds(it, s, i, n) ==
    IF it.max >= 0 /\ n >= it.max THEN <<i>>
    ELSE LET e == Match(it.sub, 1, s, i)
         IN  IF e = 0 \/ e = i THEN <<i>> ELSE <<i>> \o GrpEnds(it, s, e, n + 1)

Match(re, k, s, i) ==
    IF k > Len(re) THEN i
    ELSE LET it == re[k]
         IN  CASE it.t = "lit" ->
                    IF i + Len(it.w) - 1 <= Len(s) /\ SubSeq(s, i, i + Len(it.w) - 1) = it.w
                    THEN Match(re, k + 1, s, i + Len(it.w)) ELSE 0
               [] it.t = "alt" -> MatchAlt(re, k, s, i, 1)
               [] it.t = "cls" ->
                    IF it.min >= 1 /\ (i > Len(s) \/ ~InClass(CharAt(s, i), it)) THEN 0
                    ELSE LET n  == RunEnd(s, i, it) - i
                             ok == {c \in it.min..n : Match(re, k + 1, s, i + c) # 0}
                         IN  IF ok = {} THEN 0
                             ELSE Match(re, k + 1, s,
                                        i + (IF it.lazy THEN MinOf(ok) ELSE MaxOf(ok)))
               [] it.t = "grp" ->
                    LET ends == GrpEnds(it, s, i, 0)
                        ok   == {c \in (it.min + 1)..Len(ends) :
                                     Match(re, k + 1, s, ends[c]) # 0}
                    IN  IF ok = {} THEN 0 ELSE Match(re, k + 1, s, ends[MaxOf(ok)])
               [] it.t = "bol" ->
                    IF i = 1 \/ CharAt(s, i - 1) \in LineTerminators
                    THEN Match(re, k + 1, s, i) ELSE 0
               [] it.t = "eol" ->
                    IF i = Len(s) + 1 \/ CharAt(s, i) \in LineTerminators
                    THEN Match(re, k + 1, s, i) ELSE 0
               [] it.t = "wb" ->
                    IF IsWordAt(s, i - 1) # IsWordAt(s, i)
                    THEN Match(re, k + 1, s, i) ELSE 0

\* String.match with flag g: the leftmost, non-overlapping matches in order,
\* each as the positions [from, to) it covers.  starts is the set of all
\* positions at which the expression matches; Chosen takes from it, in the
\* order of the positions, every match that starts at or after the position
\* where the scan stands, and tells where the scan stands after them (the
\* set is scanned half after half).
\* one match [from, to): an empty match moves the scan one position on
Taken(from, to) ==
    [taken |-> <<[from |-> from, to |-> to]>>, at |-> IF to = from THEN from + 1 ELSE to]

\* the matches of the lower half followed by those of the upper half
Joined(left, right) == [taken |-> left.taken \o right.taken, at |-> right.at]

RECURSIVE Chosen(_, _, _, _)
RECURSIVE ChosenAfter(_, _, _, _)

Chosen(re, s, starts, i) ==
    IF starts = {} \/ MaxOf(starts) < i THEN [taken |-> <<>>, at |-> i]
    ELSE IF Cardinality(starts) = 1
    THEN Taken(MinOf(starts), Match(re, 1, s, MinOf(starts)))
    ELSE ChosenAfter(re, s, starts,
             Chosen(re, s, {j \in starts : j <= (MinOf(starts) + MaxOf(starts)) \div 2}, i))

ChosenAfter(re, s, starts, left) ==
    Joined(left,
           Chosen(re, s, {j \in starts : j > (MinOf(starts) + MaxOf(starts)) \div 2},
                  left.at))

matchAll(s, re) ==
    Chosen(re, s, {j \in 1..(Len(s) + 1) : Match(re, 1, s, j) # 0}, 1).taken

\* (s.match(re) || []).length
matchCount(s, re) == Len(matchAll(s, re))

\* the matched strings of s.match(re) || []
Texts(s, ms) == [k \in 1..Len(ms) |-> SubSeq(s, ms[k].from, ms[k].to - 1)]

matchStrings(s, re) == Texts(s, matchAll(s, re))

\* RegExp.prototype.test
test(re, s) == \E j \in 1..(Len(s) + 1) : Match(re, 1, s, j) # 0

\* String.prototype.split with a regular expression that matches no empty string
Pieces(s, ms) ==
    [k \in 1..(Len(ms) + 1) |->
        SubSeq(s, IF k = 1 THEN 1 ELSE ms[k - 1].to,
                  IF k > Len(ms) THEN Len(s) ELSE ms[k].from - 1)]

splitRe(s, re) == Pieces(s, matchAll(s, re))

----------------------------------------------------------------------------
(* Numbers.  A JavaScript number is an IEEE-754 binary64.  Every quantity   *)
(* of the analyzer but one is an integer, or a ratio that is compared or    *)
(* rounded once; those are computed exactly.  The exception is              *)
(* Math.round((totalScore / maxScore) * 100): the quotient is rounded to    *)
(* 53 bits, and so is the product, before Math.round sees it.               *)
(* A positive binary64 is modelled as [e, a, b, c]: the 53-bit significand  *)
(* M = a * 2^36 + b * 2^18 + c (2^16 <= a < 2^17; b, c < 2^18) and the      *)
(* value M * 2^(e - 52).  Three limbs keep every intermediate result of     *)
(* the model within 32 bits.                                                *)

Limb == 2 ^ 18

\* round to nearest, ties to even: the significand [a, b, c] is incremented
\* when the discarded part is more than half a unit, or half and c is odd
RoundToDouble(e, a, b, c, halfOrMore, moreThanHalf) ==
    LET up == moreThanHalf \/ (halfOrMore /\ (c % 2) = 1)
        c1 == IF up THEN c + 1 ELSE c
        b1 == IF c1 = Limb THEN b + 1 ELSE b
        a1 == IF b1 = Limb THEN a + 1 ELSE a
    IN  IF a1 = 2 ^ 17
        THEN [e |-> e + 1, a |-> 2 ^ 16, b |-> 0, c |-> 0]
        ELSE [e |-> e, a |-> a1, b |-> b1 % Limb, c |-> c1 % Limb]

\* the least k with n * 2^k >= d
RECURSIVE ShiftUp(_, _)
ShiftUp(n, d) == IF n >= d THEN 0 ELSE 1 + ShiftUp(2 * n, d)

\* n / d for integers 0 < n <= d < 2^12: long division, 16 + 18 + 18
\* quotient bits after the leading one, then the remainder decides the rounding
FloatDiv(n, d) ==
    LET sh == ShiftUp(n, d)
        r0 == n * (2 ^ sh) - d
        a  == 2 ^ 16 + ((r0 * (2 ^ 16)) \div d)
        r1 == (r0 * (2 ^ 16)) % d
        b  == (r1 * Limb) \div d
        r2 == (r1 * Limb) % d
        c  == (r2 * Limb) \div d
        r3 == (r2 * Limb) % d
    IN  RoundToDouble(-sh, a, b, c, 2 * r3 >= d, 2 * r3 > d)

\* x * k for a binary64 x and an integer 1 <= k < 2^7: the exact product
\* has 53 + sh bits, of which the lowest sh are rounded away
FloatMul(x, k) ==
    LET pc   == x.c * k
        pb   == x.b * k + (pc \div Limb)
        pa   == x.a * k + (pb \div Limb)
        b0   == pb % Limb
        c0   == pc % Limb
        sh   == ShiftUp(2 ^ 17, pa + 1)
        unit == 2 ^ sh
        low  == c0 % unit
    IN  RoundToDouble(x.e + sh,
                      pa \div unit,
                      (b0 \div unit) + (pa % unit) * (Limb \div unit),
                      (c0 \div unit) + (b0 % unit) * (Limb \div unit),
                      2 * low >= unit /\ sh > 0, 2 * low > unit)

\* Math.round of a binary64 below 2^16: the nearest integer, a tie goes up
MathRound(x) ==
    IF x.e < -1 THEN 0
    ELSE (x.a \div (2 ^ (16 - x.e))) + ((x.a \div (2 ^ (15 - x.e))) % 2)

\* Math.round((n / d) * 100) as JavaScript computes it, 0 <= n <= d < 2^12
RoundedPercent(n, d) ==
    IF n = 0 THEN 0 ELSE MathRound(FloatMul(FloatDiv(n, d), 100))

\* Math.round(x) of the exact ratio x = n / d (n >= 0, d > 0)
RoundRatio(n, d) == (2 * n + d) \div (2 * d)

\* Math.round((n / d) * k) as JavaScript computes it
\* (integers 0 <= n <= d < 2^12, 1 <= k < 2^7)
RoundScaled(n, d, k) ==
    IF n = 0 THEN 0 ELSE MathRound(FloatMul(FloatDiv(n, d), k))

----------------------------------------------------------------------------
(* WebsiteData (shared/schema.ts): a record                                 *)
(*   [title, metaDescription, headings, images, links, content,            *)
(*    hasSchema, schemaTypes, loadTime, wordCount]                         *)
(* with headings a sequence of [level, text], images a sequence of         *)
(* [src, alt, hasAlt], links a sequence of [href, text, isInternal] and    *)
(* schemaTypes a sequence of strings.                                      *)
(*                                                                         *)
(* A result of a rule check keeps its type and its title; the description, *)
(* details and metrics are display text that nothing reads back.           *)

Result(type, title) == [type |-> type, title |-> title]
Check(results, score) == [results |-> results, score |-> score]

isLevel1(h) == h.level = 1
isLevel2(h) == h.level = 2
isLevel3(h) == h.level = 3
lacksAlt(img) == ~img.hasAlt

\* data.headings.some(h => h.level === 2), and the same for level 3
hasLevel2(data) == \E i \in 1..Len(data.headings) : isLevel2(data.headings[i])
hasLevel3(data) == \E i \in 1..Len(data.headings) : isLevel3(data.headings[i])

\* the results pushed and the points added by a sequence of checks
RECURSIVE AllResults(_)
AllResults(checks) ==
    IF Len(checks) = 0 THEN <<>> ELSE Head(checks).results \o AllResults(Tail(checks))

RECURSIVE AllPoints(_)
AllPoints(checks) ==
    IF Len(checks) = 0 THEN 0 ELSE Head(checks).score + AllPoints(Tail(checks))

(* analyzeTraditionalSeo: six checks in a fixed order *)

\* seoTitle taking a missing title for a short one
seoTitleLenient(data) ==
    IF Len(data.title) < 30
    THEN Check(<<Result("warning", "Title tag too short")>>, 10)
    ELSE IF Len(data.title) > 60
    THEN Check(<<Result("warning", "Title tag too long")>>, 10)
    ELSE Check(<<Result("success", "Title tag length optimal")>>, 20)

seoTitle(data) ==
    IF data.title = "" THEN Check(<<Result("error", "Missing title tag")>>, 0)
    ELSE IF Len(data.title) < 30
    THEN Check(<<Result("warning", "Title tag too short")>>, 10)
    ELSE IF Len(data.title) > 60
    THEN Check(<<Result("warning", "Title tag too long")>>, 10)
    ELSE Check(<<Result("success", "Title tag length optimal")>>, 20)

seoMetaDescription(data) ==
    IF data.metaDescription = ""
    THEN Check(<<Result("error", "Missing meta description")>>, 0)
    ELSE IF Len(data.metaDescription) < 120
    THEN Check(<<Result("warning", "Meta description too short")>>, 10)
    ELSE IF Len(data.metaDescription) > 160
    THEN Check(<<Result("warning", "Meta description too long")>>, 10)
    ELSE Check(<<Result("success", "Meta description length optimal")>>, 20)

seoHeadings(data) ==
    LET h1Count == Len(SelectSeq(data.headings, isLevel1))
    IN  IF h1Count = 0 THEN Check(<<Result("error", "Missing H1 tag")>>, 0)
        ELSE IF h1Count > 1
        THEN Check(<<Result("warning", "Multiple H1 tags found")>>, 10)
        ELSE Check(<<Result("success", "Proper H1 structure")>>, 15)

\* seoImages with a plain else: a page without images passes the check
seoImagesVacuous(data) ==
    IF Len(SelectSeq(data.images, lacksAlt)) > 0
    THEN Check(<<Result("error", "Missing alt text on images")>>, 0)
    ELSE Check(<<Result("success", "All images have alt text")>>, 15)

seoImages(data) ==
    LET imagesWithoutAlt == Len(SelectSeq(data.images, lacksAlt))
    IN  IF imagesWithoutAlt > 0
        THEN Check(<<Result("error", "Missing alt text on images")>>, 0)
        ELSE IF Len(data.images) > 0
        THEN Check(<<Result("success", "All images have alt text")>>, 15)
        ELSE Check(<<>>, 0)

seoSchema(data) ==
    IF ~data.hasSchema THEN Check(<<Result("warning", "No schema markup found")>>, 0)
    ELSE Check(<<Result("success", "Schema markup present")>>, 15)

\* seoLoadTime with a load time of exactly 3000 counted as slow
seoLoadTimeFrom3000(data) ==
    IF data.loadTime >= 3000 THEN Check(<<Result("warning", "Slow page load time")>>, 0)
    ELSE Check(<<Result("success", "Good page load time")>>, 15)

seoLoadTime(data) ==
    IF data.loadTime > 3000 THEN Check(<<Result("warning", "Slow page load time")>>, 0)
    ELSE Check(<<Result("success", "Good page load time")>>, 15)

analyzeTraditionalSeo(data) ==
    LET checks == <<seoTitle(data), seoMetaDescription(data), seoHeadings(data),
                    seoImages(data), seoSchema(data), seoLoadTime(data)>>
    IN  [results |-> AllResults(checks), score |-> Min2(AllPoints(checks), 100)]

(* analyzeGeo: five checks in a fixed order *)

geoStructure(data) ==
    IF hasLevel2(data)
    THEN Check(<<Result("success", "Content structured with H2 headings")>>, 20)
    ELSE Check(<<Result("warning", "Poor heading structure for AI")>>, 0)

\* geoTldr with 20 points for a summary
geoTldrTwenty(data) ==
    LET hasTldr == \/ includes(toLowerCase(data.content), "tl;dr")
                   \/ includes(toLowerCase(data.content), "summary")
                   \/ includes(toLowerCase(data.content), "key takeaways")
    IN  IF ~hasTldr THEN Check(<<Result("error", "No TL;DR summary found")>>, 0)
        ELSE Check(<<Result("success", "Summary content present")>>, 20)

geoTldr(data) ==
    LET hasTldr == \/ includes(toLowerCase(data.content), "tl;dr")
                   \/ includes(toLowerCase(data.content), "summary")
                   \/ includes(toLowerCase(data.content), "key takeaways")
    IN  IF ~hasTldr THEN Check(<<Result("error", "No TL;DR summary found")>>, 0)
        ELSE Check(<<Result("success", "Summary content present")>>, 25)

hasQuestionMark(h) == includes(toLowerCase(h.text), "?")

geoQuestions(data) ==
    LET hasQAFormat == \/ includes(toLowerCase(data.content), "what is")
                       \/ includes(toLowerCase(data.content), "how to")
                       \/ includes(toLowerCase(data.content), "why")
                       \/ (\E i \in 1..Len(data.headings) : hasQuestionMark(data.headings[i]))
    IN  IF ~hasQAFormat
        THEN Check(<<Result("warning", "Limited question-answer format")>>, 0)
        ELSE Check(<<Result("success", "Question-answer format detected")>>, 20)

\* geoSchema that looks for schema types instead of the hasSchema flag
geoSchemaByTypes(data) ==
    IF Len(data.schemaTypes) = 0
    THEN Check(<<Result("error", "Missing schema markup")>>, 0)
    ELSE Check(<<Result("success", "Schema markup enhances AI understanding")>>, 20)

geoSchema(data) ==
    IF ~data.hasSchema THEN Check(<<Result("error", "Missing schema markup")>>, 0)
    ELSE Check(<<Result("success", "Schema markup enhances AI understanding")>>, 20)

\* /\b[A-Z][a-z]+ [A-Z][a-z]+\b/
ProperNounPair ==
    <<Wb, One(UpperChars), Plus(LowerChars), Lit(" "),
      One(UpperChars), Plus(LowerChars), Wb>>

geoEntities(data) ==
    LET hasEntities == \/ includes(data.content, "2024")
                       \/ includes(data.content, "2023")
                       \/ test(ProperNounPair, data.content)
    IN  IF hasEntities
        THEN Check(<<Result("success", "Good entity and semantic clarity")>>, 15)
        ELSE Check(<<Result("warning", "Moderate entity and semantic clarity")>>, 0)

analyzeGeo(data) ==
    LET checks == <<geoStructure(data), geoTldr(data), geoQuestions(data),
                    geoSchema(data), geoEntities(data)>>
    IN  [results |-> AllResults(checks), score |-> Min2(AllPoints(checks), 100)]

----------------------------------------------------------------------------
(* The twelve factor assessors of analyzeAiPlatformVisibility *)

\* patterns.filter(p => content.includes(p)).length
includedCount(content, patterns) ==
    Cardinality({i \in 1..Len(patterns) : includes(content, patterns[i])})

\* patterns.some(p => content.includes(p))
someIncluded(content, patterns) ==
    \E i \in 1..Len(patterns) : includes(content, patterns[i])

\* the sum of a sequence of integers
RECURSIVE Sum(_)
Sum(seq) == IF Len(seq) = 0 THEN 0 ELSE Head(seq) + Sum(Tail(seq))

\* assessCrawlability with the title bonus for a missing title as well
assessCrawlabilityAnyTitle(data) ==
    LET content == toLowerCase(data.content)
        login   == IF someIncluded(content, <<"login", "sign in", "register">>)
                   THEN -30 ELSE 0
        paywall == IF someIncluded(content, <<"subscription", "premium", "paywall">>)
                   THEN -20 ELSE 0
        public  == IF someIncluded(content, <<"free", "public", "open access">>)
                   THEN 20 ELSE 0
        noError == IF /\ ~includes(toLowerCase(data.title), "404")
                      /\ ~includes(toLowerCase(data.title), "error")
                   THEN 15 ELSE 0
        score   == 70 + login + paywall + public + noError
    IN  Max2(10, Min2(100, score))

assessCrawlability(data) ==
    LET content == toLowerCase(data.content)
        login   == IF someIncluded(content, <<"login", "sign in", "register">>)
                   THEN -30 ELSE 0
        paywall == IF someIncluded(content, <<"subscription", "premium", "paywall">>)
                   THEN -20 ELSE 0
        public  == IF someIncluded(content, <<"free", "public", "open access">>)
                   THEN 20 ELSE 0
        noError == IF /\ data.title # ""
                      /\ ~includes(toLowerCase(data.title), "404")
                      /\ ~includes(toLowerCase(data.title), "error")
                   THEN 15 ELSE 0
        score   == 70 + login + paywall + public + noError
    IN  Max2(10, Min2(100, score))

\* assessHtmlStructure with no points for several H1 headings
assessHtmlStructureSingleH1(data) ==
    LET h1Count == Len(SelectSeq(data.headings, isLevel1))
        h1      == IF h1Count = 1 THEN 25 ELSE 0
        hasH2   == hasLevel2(data)
        hasH3   == hasLevel3(data)
        score   == h1 + (IF hasH2 THEN 25 ELSE 0) + (IF hasH3 THEN 15 ELSE 0)
                      + (IF data.title # "" /\ Len(data.title) > 10 THEN 20 ELSE 0)
                      + (IF data.metaDescription # ""
                            /\ Len(data.metaDescription) > 50 THEN 15 ELSE 0)
    IN  Min2(100, score)

assessHtmlStructure(data) ==
    LET h1Count == Len(SelectSeq(data.headings, isLevel1))
        h1      == IF h1Count = 1 THEN 25 ELSE IF h1Count = 0 THEN 0 ELSE 10
        hasH2   == hasLevel2(data)
        hasH3   == hasLevel3(data)
        score   == h1 + (IF hasH2 THEN 25 ELSE 0) + (IF hasH3 THEN 15 ELSE 0)
                      + (IF data.title # "" /\ Len(data.title) > 10 THEN 20 ELSE 0)
                      + (IF data.metaDescription # ""
                            /\ Len(data.metaDescription) > 50 THEN 15 ELSE 0)
    IN  Min2(100, score)

longerThan3(word) == Len(word) > 3

\* assessContentClarity with the bounds 500 and 2000 in the band of 25 points
assessContentClarityFrom500(data) ==
    LET content == toLowerCase(data.content)
        foundIntro == someIncluded(content,
            <<"what is", "introduction", "overview", "in this article", "this guide">>)
        foundQA == includedCount(content,
            <<"how to", "why", "when", "where", "which", "who">>)
        foundDefinitions == someIncluded(content,
            <<"definition", "means", "refers to", "is defined as", "can be defined">>)
        length == IF data.wordCount >= 500 /\ data.wordCount <= 2000 THEN 25
                  ELSE IF data.wordCount >= 2000 /\ data.wordCount < 4000 THEN 20
                  ELSE IF data.wordCount >= 300 /\ data.wordCount <= 500 THEN 15
                  ELSE IF data.wordCount < 300 THEN 5
                  ELSE 0
        titleWords == SelectSeq(split(toLowerCase(data.title), " "), longerThan3)
        contentMentions == includedCount(content, titleWords)
        relevance == IF data.title # ""
                     THEN RoundScaled(contentMentions, Max2(Len(titleWords), 1), 15)
                     ELSE 0
        score == 10 + (IF foundIntro THEN 20 ELSE 0) + Min2(foundQA * 8, 25)
                    + (IF foundDefinitions THEN 15 ELSE 0) + length + relevance
    IN  Min2(100, score)

assessContentClarity(data) ==
    LET content == toLowerCase(data.content)
        foundIntro == someIncluded(content,
            <<"what is", "introduction", "overview", "in this article", "this guide">>)
        foundQA == includedCount(content,
            <<"how to", "why", "when", "where", "which", "who">>)
        foundDefinitions == someIncluded(content,
            <<"definition", "means", "refers to", "is defined as", "can be defined">>)
        length == IF data.wordCount > 500 /\ data.wordCount < 2000 THEN 25
                  ELSE IF data.wordCount >= 2000 /\ data.wordCount < 4000 THEN 20
                  ELSE IF data.wordCount >= 300 /\ data.wordCount <= 500 THEN 15
                  ELSE IF data.wordCount < 300 THEN 5
                  ELSE 0
        titleWords == SelectSeq(split(toLowerCase(data.title), " "), longerThan3)
        contentMentions == includedCount(content, titleWords)
        relevance == IF data.title # ""
                     THEN RoundScaled(contentMentions, Max2(Len(titleWords), 1), 15)
                     ELSE 0
        score == 10 + (IF foundIntro THEN 20 ELSE 0) + Min2(foundQA * 8, 25)
                    + (IF foundDefinitions THEN 15 ELSE 0) + length + relevance
    IN  Min2(100, score)

trimmedOver50(p) == Len(trim(p)) > 50
trimmedOver10(p) == Len(trim(p)) > 10

\* the lengths of the strings of a sequence
Lengths(seq) == [i \in 1..Len(seq) |-> Len(seq[i])]

BulletOrDash    == <<One({"*", "-"}), One(SpaceChars)>>          \* /[•*\-]\s/g
NumberDot       == <<Plus(DigitChars), Lit("."), One(SpaceChars)>>  \* /\d+\.\s/g
BoldText        == <<Lit("**"), LazyNot(LineTerminators), Lit("**")>>  \* /\*\*.*?\*\*/g
ItalicText      == <<Lit("*"), LazyNot(LineTerminators), Lit("*")>>    \* /\*.*?\*/g
ColonEnding     == <<Lit(":"), Star(SpaceChars), Eol>>           \* /:\s*$/gm
ListItem        == <<Bol, Star(SpaceChars), One({"-"}), One(SpaceChars)>>  \* /^\s*[-•]\s/gm

\* the matches of a sequence of patterns, added up
RECURSIVE matchTotal(_, _)
matchTotal(content, patterns) ==
    IF Len(patterns) = 0 THEN 0
    ELSE matchCount(content, Head(patterns)) + matchTotal(content, Tail(patterns))

FormattingPatterns == <<BoldText, ItalicText, ColonEnding, ListItem>>

\* the points for the paragraphs: avgParagraphLength is the total of their
\* lengths over their number, compared exactly
paragraphLengthPoints(total, count) ==
    IF count = 0 THEN 0
    ELSE IF total < 200 * count THEN 30
    ELSE IF total < 400 * count THEN 25
    ELSE IF total < 600 * count THEN 15
    ELSE 5

\* the points for bulletPoints + numberedLists
listPoints(totalLists) ==
    IF totalLists > 10 THEN 25
    ELSE IF totalLists > 5 THEN 20
    ELSE IF totalLists > 2 THEN 15
    ELSE IF totalLists > 0 THEN 10
    ELSE 0

\* the points for headingRatio = headingCount / max(contentWords / 200, 1),
\* the ratio num / den compared exactly
distributionPoints(headingCount, contentWords) ==
    LET num == IF contentWords > 200 THEN headingCount * 200 ELSE headingCount
        den == IF contentWords > 200 THEN contentWords ELSE 1
    IN  IF 10 * num > 8 * den THEN 25
        ELSE IF 10 * num > 5 * den THEN 20
        ELSE IF 10 * num > 3 * den THEN 15
        ELSE IF 10 * num > den THEN 10
        ELSE 0

\* the points of one formatting pattern with the given number of matches
formattingPoints(matches) == IF matches > 0 THEN Min2(matches * 2, 10) ELSE 0

\* formattingPatterns.forEach: the points of the patterns, added up
RECURSIVE formattingScore(_, _)
formattingScore(content, patterns) ==
    IF Len(patterns) = 0 THEN 0
    ELSE formattingPoints(matchCount(content, Head(patterns)))
             + formattingScore(content, Tail(patterns))

assessScanability(data) ==
    LET paragraphs == SelectSeq(split(data.content, "\n\n"), trimmedOver50)
        score == 5 + paragraphLengthPoints(Sum(Lengths(paragraphs)), Len(paragraphs))
                   + listPoints(matchTotal(data.content, <<BulletOrDash, NumberDot>>))
                   + distributionPoints(Len(data.headings), data.wordCount)
                   + Min2(formattingScore(data.content, FormattingPatterns), 20)
    IN  Min2(100, score)

assessSummarySections(data) ==
    LET content == toLowerCase(data.content)
        score == (IF includes(content, "tl;dr") \/ includes(content, "tldr")
                  THEN 40 ELSE 0)
               + (IF someIncluded(content, <<"summary", "key points", "takeaways">>)
                  THEN 30 ELSE 0)
               + (IF includes(content, "conclusion") \/ includes(content, "to summarize")
                  THEN 30 ELSE 0)
    IN  Min2(100, score)

isQuestionHeading(h) ==
    \/ includes(toLowerCase(h.text), "?")
    \/ startsWith(toLowerCase(h.text), "how ")
    \/ startsWith(toLowerCase(h.text), "what ")
    \/ startsWith(toLowerCase(h.text), "why ")

assessQaFormat(data) ==
    LET content == toLowerCase(data.content)
        questionHeadings == SelectSeq(data.headings, isQuestionHeading)
        score == (IF someIncluded(content, <<"q:", "question:", "faq">>) THEN 40 ELSE 0)
               + (IF includes(content, "a:") \/ includes(content, "answer:")
                  THEN 30 ELSE 0)
               + (IF Len(questionHeadings) > 0 THEN 30 ELSE 0)
    IN  Min2(100, score)

\* Array.prototype.includes
contains(seq, x) == \E i \in 1..Len(seq) : seq[i] = x

\* assessSchemaMarkup counting the types whatever hasSchema says
assessSchemaMarkupByTypes(data) ==
    LET types == (IF contains(data.schemaTypes, "FAQPage") THEN 20 ELSE 0)
                     + (IF contains(data.schemaTypes, "Article") THEN 15 ELSE 0)
                     + (IF contains(data.schemaTypes, "HowTo") THEN 15 ELSE 0)
    IN  Min2(100, IF data.hasSchema \/ types > 0 THEN 50 + types ELSE 0)

assessSchemaMarkup(data) ==
    LET score == IF data.hasSchema
                 THEN 50 + (IF contains(data.schemaTypes, "FAQPage") THEN 20 ELSE 0)
                         + (IF contains(data.schemaTypes, "Article") THEN 15 ELSE 0)
                         + (IF contains(data.schemaTypes, "HowTo") THEN 15 ELSE 0)
                 ELSE 0
    IN  Min2(100, score)

isExternal(link) == ~link.isInternal

assessTrustedEntities(data) ==
    LET content == toLowerCase(data.content)
        foundAuthority == includedCount(content,
            <<"wikipedia", ".gov", ".edu", ".org", "reuters", "bbc", "cnn",
              "nytimes", "wsj">>)
        foundResearch == includedCount(content,
            <<"research", "study", "university", "journal", "published",
              "peer review", "academic">>)
        foundIndustry == includedCount(content,
            <<"according to", "expert", "specialist", "authority", "leader in",
              "established">>)
        externalLinks == SelectSeq(data.links, isExternal)
        linkScore == Min2(Len(externalLinks) * 3, 20)
        citations == IF someIncluded(content, <<"source:", "reference", "citation">>)
                     THEN 15 ELSE 0
        foundEntities == includedCount(content,
            <<"inc.", "corp.", "ltd.", "company", "organization", "institute">>)
        score == 5 + Min2(foundAuthority * 12, 35) + Min2(foundResearch * 8, 25)
                   + Min2(foundIndustry * 5, 20) + linkScore + citations
                   + Min2(foundEntities * 4, 15)
    IN  Min2(100, score)

BulletPatterns ==
    << <<One({"*"}), One(SpaceChars)>>,                              \* /[•*]\s/g
       <<Bol, Star(SpaceChars), One({"-", "*", "+"}), One(SpaceChars)>> >>
                                                                     \* /^\s*[-\*\+]\s/gm
NumberedLine ==
    <<Bol, Star(SpaceChars), Plus(DigitChars), Lit("."), One(SpaceChars)>>
                                                                     \* /^\s*\d+\.\s/gm
\* with flag i: matched against the lower-cased content
StatPatterns ==
    << <<Plus(DigitChars), Lit("%")>>,                               \* /\d+%/g
       <<Lit("$"), Plus(DigitChars),
         Grp(<<Lit(","), Times(DigitChars, 3)>>, 0, -1)>>,           \* /\$\d+(?:,\d{3})*/g
       <<Plus(DigitChars), Lit(","), Times(DigitChars, 3)>>,         \* /\d+,\d{3}/g
       <<Plus(DigitChars), Lit("."), Plus(DigitChars)>>,             \* /\d+\.\d+/g
       <<Plus(DigitChars), Opt(SpaceChars),
         Alt(<<"million", "billion", "thousand">>)>>,
       <<Plus(DigitChars), Opt(SpaceChars),
         Alt(<<"hours", "hour", "days", "day", "weeks", "week",
               "months", "month", "years", "year">>)>>,
       <<Plus(DigitChars), Opt(SpaceChars),
         Alt(<<"people", "users", "customers", "companies">>)>> >>
ComparisonFormats ==
    << <<Lit("vs"), Opt({"."}), One(SpaceChars)>>,                   \* /vs\.?\s/gi
       <<Lit("versus")>>, <<Lit("compared to")>>, <<Lit("in contrast")>>,
       <<Lit("on the other hand")>> >>
CodePatterns ==
    \* the inline-code and code-block patterns start with a backquote, which
    \* is not in the input alphabet: they match nothing and are left out
    << <<Lit("<"), PlusNot({">"}), Lit(">")>> >>                     \* /<[^>]+>/g

bulletPoints(bulletCount) ==
    IF bulletCount > 10 THEN 25
    ELSE IF bulletCount > 5 THEN 20
    ELSE IF bulletCount > 2 THEN 15
    ELSE IF bulletCount > 0 THEN 10
    ELSE 0

numberedPoints(numberedCount) ==
    IF numberedCount > 8 THEN 20
    ELSE IF numberedCount > 4 THEN 15
    ELSE IF numberedCount > 1 THEN 10
    ELSE IF numberedCount > 0 THEN 5
    ELSE 0

statPoints(statCount) ==
    IF statCount > 15 THEN 25
    ELSE IF statCount > 8 THEN 20
    ELSE IF statCount > 4 THEN 15
    ELSE IF statCount > 1 THEN 10
    ELSE 0

assessDataFormats(data) ==
    LET content == data.content
        lower == toLowerCase(content)
        tableScore == includedCount(lower,
            <<"table", "chart", "graph", "figure", "data shows", "statistics">>)
        score == 5 + bulletPoints(matchTotal(content, BulletPatterns))
                   + numberedPoints(matchCount(content, NumberedLine))
                   + statPoints(matchTotal(lower, StatPatterns))
                   + Min2(tableScore * 3, 15)
                   + Min2(matchTotal(lower, ComparisonFormats) * 4, 15)
                   + Min2(matchTotal(content, CodePatterns) * 2, 10)
    IN  Min2(100, score)

SentenceEnd == <<Plus({".", "!", "?"})>>          \* /[.!?]+/
WordPattern == <<Wb, Plus(WordChars), Wb>>        \* /\b\w+\b/g
longerThan7(word) == Len(word) > 7

\* the points for avgWordsPerSentence = wordCount / sentences.length,
\* compared exactly
sentencePoints(wordCount, sentences) ==
    IF sentences = 0 THEN 0
    ELSE IF wordCount < 15 * sentences THEN 30
    ELSE IF wordCount < 20 * sentences THEN 20
    ELSE IF wordCount < 25 * sentences THEN 10
    ELSE 5

\* complexityPoints with no points for a content that holds no word
complexityPointsOfWords(words) ==
    LET complexWords == SelectSeq(words, longerThan7)
    IN  IF Len(words) = 0 THEN 0
        ELSE IF 100 * Len(complexWords) < 15 * Len(words) THEN 20
        ELSE IF 100 * Len(complexWords) < 25 * Len(words) THEN 15
        ELSE IF 100 * Len(complexWords) < 35 * Len(words) THEN 10
        ELSE 5

\* the points for complexWordRatio = complexWords.length / words.length: NaN
\* when the content holds no word, and every comparison with NaN is false
complexityPoints(words) ==
    LET complexWords == SelectSeq(words, longerThan7)
    IN  IF Len(words) = 0 THEN 5
        ELSE IF 100 * Len(complexWords) < 15 * Len(words) THEN 20
        ELSE IF 100 * Len(complexWords) < 25 * Len(words) THEN 15
        ELSE IF 100 * Len(complexWords) < 35 * Len(words) THEN 10
        ELSE 5

\* the points for avgWordsPerParagraph = wordCount / paragraphs.length
paragraphWordPoints(wordCount, paragraphs) ==
    IF paragraphs = 0 THEN 0
    ELSE IF wordCount < 50 * paragraphs THEN 15
    ELSE IF wordCount < 100 * paragraphs THEN 10
    ELSE 5

assessReadability(data) ==
    LET sentences == SelectSeq(splitRe(data.content, SentenceEnd), trimmedOver10)
        words == matchStrings(data.content, WordPattern)
        paragraphs == SelectSeq(split(data.content, "\n\n"), trimmedOver50)
        foundTerms == includedCount(toLowerCase(data.content),
            <<"simply", "easy", "quick", "step by step", "in other words",
              "for example">>)
        score == 30 + sentencePoints(data.wordCount, Len(sentences))
                    + complexityPoints(words)
                    + paragraphWordPoints(data.wordCount, Len(paragraphs))
                    + Min2(foundTerms * 5, 15)
    IN  Max2(10, Min2(100, score))

FreshnessTerms ==
    << [term |-> "updated", weight |-> 15], [term |-> "revised", weight |-> 12],
       [term |-> "latest", weight |-> 10], [term |-> "current", weight |-> 8],
       [term |-> "recent", weight |-> 8], [term |-> "new", weight |-> 6],
       [term |-> "today", weight |-> 12], [term |-> "this year", weight |-> 10],
       [term |-> "recently", weight |-> 8] >>

\* the points assessFreshness adds up before it clamps them; currentYear is
\* new Date().getFullYear(), read from the clock by the source
freshnessPoints(data, currentYear) ==
    LET content == toLowerCase(data.content)
        currentYearMatches == matchCount(content, <<Lit(ToString(currentYear))>>)
        lastYearMatches == matchCount(content, <<Lit(ToString(currentYear - 1))>>)
        freshnessScore ==
            Sum([i \in 1..Len(FreshnessTerms) |->
                    IF includes(content, FreshnessTerms[i].term)
                    THEN FreshnessTerms[i].weight ELSE 0])
        monthMentions == includedCount(content,
            <<"january", "february", "march", "april", "may", "june", "july",
              "august", "september", "october", "november", "december">>)
        versionMentions == includedCount(content,
            <<"version", "v.", "update", "release">>)
        oldYearMentions == includedCount(content, <<"2020", "2019", "2018", "2017">>)
    IN  10 + Min2(currentYearMatches * 15, 30) + Min2(lastYearMatches * 10, 20)
           + Min2(freshnessScore, 25) + Min2(monthMentions * 3, 15)
           + Min2(versionMentions * 5, 15) - Min2(oldYearMentions * 5, 20)

\* assessFreshness with its last line returning the points as they are
assessFreshnessUnclamped(data, currentYear) == freshnessPoints(data, currentYear)

\* return Math.max(5, Math.min(100, score))
assessFreshness(data, currentYear) ==
    Max2(5, Min2(100, freshnessPoints(data, currentYear)))

assessCredibility(data) ==
    LET content == toLowerCase(data.content)
        foundAuthor == someIncluded(content,
            <<"author:", "written by", "by:", "contributor:", "created by",
              "published by">>)
        foundContact == includedCount(content,
            <<"contact us", "about us", "our team", "meet the team", "company info">>)
        foundCredentials == includedCount(content,
            <<"expert", "certified", "professional", "phd", "degree",
              "years of experience", "specialist">>)
        foundTrust == includedCount(content,
            <<"award", "featured in", "recognized", "testimonial", "review",
              "trusted by">>)
        foundDate == someIncluded(content,
            <<"published", "updated", "last modified", "copyright", "2024", "2025">>)
        validation == IF someIncluded(content, <<"source", "reference", "study">>)
                      THEN 10 ELSE 0
        score == 15 + (IF foundAuthor THEN 25 ELSE 0) + Min2(foundContact * 8, 20)
                    + Min2(foundCredentials * 6, 18) + Min2(foundTrust * 5, 15)
                    + (IF foundDate THEN 12 ELSE 0) + validation
    IN  Max2(5, Min2(100, score))

----------------------------------------------------------------------------
(* analyzeAiPlatformVisibility: the twelve factors, the overall score, the *)
(* summary and the recommendations                                         *)

\* statusOf with the thresholds 80 and 50 left in the lower band
statusOfAbove(score) == IF score > 80 THEN "pass" ELSE IF score > 50 THEN "warning" ELSE "fail"

\* score >= 80 ? 'pass' : score >= 50 ? 'warning' : 'fail'
statusOf(score) == IF score >= 80 THEN "pass" ELSE IF score >= 50 THEN "warning" ELSE "fail"

Factor(factor, score) == [factor |-> factor, score |-> score, status |-> statusOf(score)]

isFail(f) == f.status = "fail"
isWarning(f) == f.status = "warning"

maxScore == 1200

\* assessFactors with the Schema Markup factor under another name
assessFactorsRenamed(data, currentYear) ==
    << Factor("Public Crawlability", assessCrawlability(data)),
       Factor("HTML Structure", assessHtmlStructure(data)),
       Factor("Content Clarity", assessContentClarity(data)),
       Factor("Content Scannability", assessScanability(data)),
       Factor("TL;DR & Summary", assessSummarySections(data)),
       Factor("Q&A Format", assessQaFormat(data)),
       Factor("Structured Data", assessSchemaMarkup(data)),
       Factor("Trusted Entities", assessTrustedEntities(data)),
       Factor("Data Extraction", assessDataFormats(data)),
       Factor("Readability Level", assessReadability(data)),
       Factor("Content Freshness", assessFreshness(data, currentYear)),
       Factor("Credibility Markers", assessCredibility(data)) >>

\* the factors in the order the source pushes them
assessFactors(data, currentYear) ==
    << Factor("Public Crawlability", assessCrawlability(data)),
       Factor("HTML Structure", assessHtmlStructure(data)),
       Factor("Content Clarity", assessContentClarity(data)),
       Factor("Content Scannability", assessScanability(data)),
       Factor("TL;DR & Summary", assessSummarySections(data)),
       Factor("Q&A Format", assessQaFormat(data)),
       Factor("Schema Markup", assessSchemaMarkup(data)),
       Factor("Trusted Entities", assessTrustedEntities(data)),
       Factor("Data Extraction", assessDataFormats(data)),
       Factor("Readability Level", assessReadability(data)),
       Factor("Content Freshness", assessFreshness(data, currentYear)),
       Factor("Credibility Markers", assessCredibility(data)) >>

Scores(factors) == [i \in 1..Len(factors) |-> factors[i].score]

\* overallOf with the maximum of ten factors
overallOfTenFactors(totalScore) == RoundedPercent(totalScore, maxScore - 200)

\* Math.round((totalScore / maxScore) * 100), in double precision
overallOf(totalScore) == RoundedPercent(totalScore, maxScore)

\* summaryOf with the bounds 80, 60 and 40 left in the lower band
summaryOfAbove(factors, overallScore) ==
    LET failingFactors == Len(SelectSeq(factors, isFail))
        warningFactors == Len(SelectSeq(factors, isWarning))
    IN  IF overallScore > 80
        THEN "Excellent AI platform visibility with strong optimization across most factors"
        ELSE IF overallScore > 60
        THEN "Good AI visibility with " \o ToString(failingFactors + warningFactors)
                 \o " areas needing improvement"
        ELSE IF overallScore > 40
        THEN "Moderate AI visibility. " \o ToString(failingFactors)
                 \o " critical issues and " \o ToString(warningFactors)
                 \o " warnings to address"
        ELSE "Poor AI platform visibility. Significant optimization needed across "
                 \o ToString(failingFactors) \o " critical areas"

\* the summary: four templates by the band of the overall score
summaryOf(factors, overallScore) ==
    LET failingFactors == Len(SelectSeq(factors, isFail))
        warningFactors == Len(SelectSeq(factors, isWarning))
    IN  IF overallScore >= 80
        THEN "Excellent AI platform visibility with strong optimization across most factors"
        ELSE IF overallScore >= 60
        THEN "Good AI visibility with " \o ToString(failingFactors + warningFactors)
                 \o " areas needing improvement"
        ELSE IF overallScore >= 40
        THEN "Moderate AI visibility. " \o ToString(failingFactors)
                 \o " critical issues and " \o ToString(warningFactors)
                 \o " warnings to address"
        ELSE "Poor AI platform visibility. Significant optimization needed across "
                 \o ToString(failingFactors) \o " critical areas"

(* generateAiVisibilityRecommendations.  A recommendation keeps its        *)
(* priority and its action; description and impact are display text.       *)

Recommendation(priority, action) == [priority |-> priority, action |-> action]

\* failRecommendation with a case for a failing HTML Structure as well
failRecommendationWithHtml(f) ==
    IF f.status # "fail" THEN <<>>
    ELSE IF f.factor = "TL;DR & Summary"
    THEN <<Recommendation("high", "Add TL;DR Summary Section")>>
    ELSE IF f.factor = "Q&A Format"
    THEN <<Recommendation("high", "Create FAQ Section")>>
    ELSE IF f.factor = "Schema Markup"
    THEN <<Recommendation("high", "Implement Structured Data")>>
    ELSE IF f.factor = "Content Clarity"
    THEN <<Recommendation("high", "Improve Content Structure")>>
    ELSE IF f.factor = "HTML Structure"
    THEN <<Recommendation("medium", "Improve Heading Structure")>>
    ELSE <<>>

\* the switch of the first forEach: what a failing factor pushes
failRecommendation(f) ==
    IF f.status # "fail" THEN <<>>
    ELSE IF f.factor = "TL;DR & Summary"
    THEN <<Recommendation("high", "Add TL;DR Summary Section")>>
    ELSE IF f.factor = "Q&A Format"
    THEN <<Recommendation("high", "Create FAQ Section")>>
    ELSE IF f.factor = "Schema Markup"
    THEN <<Recommendation("high", "Implement Structured Data")>>
    ELSE IF f.factor = "Content Clarity"
    THEN <<Recommendation("high", "Improve Content Structure")>>
    ELSE <<>>

\* the switch of the second forEach: what a factor in warning pushes
warningRecommendation(f) ==
    IF f.status # "warning" THEN <<>>
    ELSE IF f.factor = "HTML Structure"
    THEN <<Recommendation("medium", "Improve Heading Structure")>>
    ELSE IF f.factor = "Content Scannability"
    THEN <<Recommendation("medium", "Break Content into Short Paragraphs")>>
    ELSE IF f.factor = "Readability Level"
    THEN <<Recommendation("medium", "Simplify Language")>>
    ELSE <<>>

\* the first forEach: the entries the failing factors push, in factor order
RECURSIVE failRecommendations(_)
failRecommendations(factors) ==
    IF Len(factors) = 0 THEN <<>>
    ELSE failRecommendation(Head(factors)) \o failRecommendations(Tail(factors))

\* the second forEach: the entries the factors in warning push, in factor order
RECURSIVE warningRecommendations(_)
warningRecommendations(factors) ==
    IF Len(factors) = 0 THEN <<>>
    ELSE warningRecommendation(Head(factors)) \o warningRecommendations(Tail(factors))

generalRecommendations(overallScore) ==
    (IF overallScore < 70
     THEN <<Recommendation("medium", "Add Current Year References")>> ELSE <<>>)
    \o (IF overallScore < 50
        THEN <<Recommendation("high", "Add Statistics and Data")>> ELSE <<>>)

\* Array.prototype.slice(0, n)
slice(seq, n) == SubSeq(seq, 1, Min2(n, Len(seq)))

\* the recommendations in the order they are pushed
allRecommendations(factors, overallScore) ==
    failRecommendations(factors)
        \o warningRecommendations(factors)
        \o generalRecommendations(overallScore)

\* generateAiVisibilityRecommendations returning all it has pushed
generateAllRecommendations(factors, overallScore) ==
    allRecommendations(factors, overallScore)

\* return recommendations.slice(0, 8)
generateAiVisibilityRecommendations(factors, overallScore) ==
    slice(allRecommendations(factors, overallScore), 8)

\* the analysis that the assessed factors give
analysisOf(factors) ==
    LET totalScore   == Sum(Scores(factors))
        overallScore == overallOf(totalScore)
    IN  [overallScore    |-> overallScore,
         summary         |-> summaryOf(factors, overallScore),
         factors         |-> factors,
         recommendations |-> generateAiVisibilityRecommendations(factors, overallScore)]

analyzeAiPlatformVisibility(data, currentYear) ==
    analysisOf(assessFactors(data, currentYear))

----------------------------------------------------------------------------
(* generateContentSuggestions and generateAiImprovements.  An improvement   *)
(* keeps its action, its impact and its priority; the description is       *)
(* display text.                                                           *)

missingKeywords ==
    << "SEO optimization",
       "website performance",
       "search engine ranking",
       "content marketing",
       "digital marketing" >>

BlogTitle(title, target) == [title |-> title, target |-> target]

blogTitles ==
    << BlogTitle("How to Improve Your Page Speed for Better Rankings in 2024",
                 "page speed optimization, Core Web Vitals"),
       BlogTitle("The Complete Guide to AI-Friendly Content Creation",
                 "AI optimization, content structure"),
       BlogTitle("SEO vs GEO: What's the Difference and Why It Matters",
                 "generative engine optimization, SEO comparison"),
       BlogTitle("Schema Markup: The Secret to Better AI Visibility",
                 "structured data, schema implementation") >>

contentStructure ==
    << "## What is SEO Optimization?",
       "### Definition and Core Principles",
       "### Why SEO Matters in 2024",
       "## Traditional SEO vs. AI Optimization",
       "### Search Engine Optimization Basics",
       "### Generative Engine Optimization (GEO)",
       "## Step-by-Step Implementation Guide",
       "### Technical SEO Checklist",
       "### Content Optimization Strategies",
       "## Measuring Success",
       "### Key Performance Indicators",
       "### Tools and Analytics" >>

Faq(question, answer) == [question |-> question, answer |-> answer]

faqs ==
    << Faq("What is a good page speed score?",
           "A good page speed score is above 90 for mobile and desktop. "
              \o "Core Web Vitals should meet Google's thresholds: LCP under "
              \o "2.5s, FID under 100ms, and CLS under 0.1."),
       Faq("How can I optimize images without losing quality?",
           "Use modern formats like WebP or AVIF, implement lazy "
              \o "loading, compress images to 80-85% quality, and serve "
              \o "responsive images using srcset attributes."),
       Faq("What's the difference between SEO and GEO?",
           "SEO optimizes for search engines like Google, while GEO "
              \o "(Generative Engine Optimization) optimizes for AI platforms "
              \o "like ChatGPT and Perplexity that generate direct answers."),
       Faq("How important is schema markup for AI visibility?",
           "Schema markup is crucial for AI platforms to understand "
              \o "your content context, entity relationships, and factual "
              \o "information, significantly improving visibility in "
              \o "AI-generated responses.") >>

\* const aiVisibility: the same for every page
platformVisibility ==
    [chatgpt |-> "medium", perplexity |-> "low", claude |-> "medium", bard |-> "low"]

Improvement(action, impact, priority) ==
    [action |-> action, impact |-> impact, priority |-> priority]

\* if (currentScore < 50)
below50(currentScore) ==
    IF currentScore < 50
    THEN << Improvement("Add TL;DR Summary Section", "high", 1),
            Improvement("Create FAQ Schema Markup", "high", 2) >>
    ELSE <<>>

\* if (currentScore < 75)
below75(currentScore) ==
    IF currentScore < 75
    THEN << Improvement("Improve Content Structure with Clear Headings", "high", 3),
            Improvement("Add \"People Also Ask\" Section", "medium", 4),
            Improvement("Include Specific Dates and Statistics", "medium", 5) >>
    ELSE <<>>

\* if (currentScore < 85)
below85(currentScore) ==
    IF currentScore < 85
    THEN << Improvement("Optimize for Voice Search Queries", "medium", 6),
            Improvement("Add Comparison Tables", "medium", 7) >>
    ELSE <<>>

\* if (currentScore >= 85)
from85(currentScore) ==
    IF currentScore >= 85
    THEN << Improvement("Link to Authoritative Sources", "low", 8),
            Improvement("Add Step-by-Step Instructions", "low", 9),
            Improvement("Implement Article Schema", "low", 10) >>
    ELSE <<>>

\* the improvements pushed, before the cut
allImprovements(currentScore) ==
    below50(currentScore) \o below75(currentScore) \o below85(currentScore)
        \o from85(currentScore)

\* generateAiImprovements without the cut to six
generateAllImprovements(data, currentScore) == allImprovements(currentScore)

\* improvements.slice(0, 6)
generateAiImprovements(data, currentScore) == slice(allImprovements(currentScore), 6)

\* generateContentSuggestions with the page title among the missing keywords
generateContentSuggestionsForTitle(data, aiScore) ==
    [missingKeywords |-> <<data.title>> \o missingKeywords,
     blogTitles |-> blogTitles,
     contentStructure |-> contentStructure,
     faqs |-> faqs,
     aiVisibility |-> platformVisibility,
     aiImprovements |-> generateAiImprovements(data, aiScore)]

generateContentSuggestions(data, aiScore) ==
    [missingKeywords |-> missingKeywords,
     blogTitles |-> blogTitles,
     contentStructure |-> contentStructure,
     faqs |-> faqs,
     aiVisibility |-> platformVisibility,
     aiImprovements |-> generateAiImprovements(data, aiScore)]

----------------------------------------------------------------------------
(* compareWebsites *)

KeyDifference(category, aspect, url1Value, url2Value) ==
    [category |-> category, aspect |-> aspect,
     url1Value |-> url1Value, url2Value |-> url2Value]

\* factors.find(f => f.factor === name), then the score as text
factorValue(aiVisibility, name) ==
    LET found == SelectSeq(aiVisibility.factors, LAMBDA f : f.factor = name)
    IN  IF Len(found) = 0 THEN "Not assessed"
        ELSE ToString(found[1].score) \o "/100"

metaValue(data) ==
    IF data.metaDescription # ""
    THEN ToString(Len(data.metaDescription)) \o " chars" ELSE "Missing"

structureValue(data) ==
    IF hasLevel2(data) THEN "Has H2 structure" ELSE "Poor heading structure"

schemaValue(data) ==
    IF data.hasSchema THEN ToString(Len(data.schemaTypes)) \o " types" ELSE "None"

\* betterPerformerOf with a sum of zero going to url2
betterPerformerOnTie(seoScoreDiff, aiScoreDiff, aiVisibilityDiff) ==
    IF seoScoreDiff + aiScoreDiff + aiVisibilityDiff >= 0 THEN "url2" ELSE "url1"

\* betterPerformerOf deciding by the size of the sum, whatever its sign
betterPerformerBySize(seoScoreDiff, aiScoreDiff, aiVisibilityDiff) ==
    IF Abs(seoScoreDiff + aiScoreDiff + aiVisibilityDiff) > 0 THEN "url2" ELSE "url1"

\* (seoScoreDiff + aiScoreDiff + aiVisibilityDiff) > 0 ? 'url2' : 'url1'
betterPerformerOf(seoScoreDiff, aiScoreDiff, aiVisibilityDiff) ==
    IF seoScoreDiff + aiScoreDiff + aiVisibilityDiff > 0 THEN "url2" ELSE "url1"

\* seoDifferences with a difference of 10 reported as well
seoDifferencesFromTen(data1, data2, seoScoreDiff) ==
    IF Abs(seoScoreDiff) >= 10
    THEN << KeyDifference("seo", "Title Tag Optimization",
                ToString(Len(data1.title)) \o " characters",
                ToString(Len(data2.title)) \o " characters"),
            KeyDifference("seo", "Meta Description",
                metaValue(data1), metaValue(data2)) >>
    ELSE <<>>

\* if (Math.abs(seoScoreDiff) > 10): the two entries of category seo
seoDifferences(data1, data2, seoScoreDiff) ==
    IF Abs(seoScoreDiff) > 10
    THEN << KeyDifference("seo", "Title Tag Optimization",
                ToString(Len(data1.title)) \o " characters",
                ToString(Len(data2.title)) \o " characters"),
            KeyDifference("seo", "Meta Description",
                metaValue(data1), metaValue(data2)) >>
    ELSE <<>>

\* visibilityDifferences with the values of the two sides exchanged
visibilityDifferencesCrossed(aiVisibility1, aiVisibility2, aiVisibilityDiff) ==
    IF Abs(aiVisibilityDiff) > 15
    THEN << KeyDifference("visibility", "AI Platform Summary",
                factorValue(aiVisibility2, "TL;DR & Summary"),
                factorValue(aiVisibility1, "TL;DR & Summary")),
            KeyDifference("visibility", "Structured Data Implementation",
                factorValue(aiVisibility2, "Schema Markup"),
                factorValue(aiVisibility1, "Schema Markup")) >>
    ELSE <<>>

\* if (Math.abs(aiVisibilityDiff) > 15): the two entries of category visibility
visibilityDifferences(aiVisibility1, aiVisibility2, aiVisibilityDiff) ==
    IF Abs(aiVisibilityDiff) > 15
    THEN << KeyDifference("visibility", "AI Platform Summary",
                factorValue(aiVisibility1, "TL;DR & Summary"),
                factorValue(aiVisibility2, "TL;DR & Summary")),
            KeyDifference("visibility", "Structured Data Implementation",
                factorValue(aiVisibility1, "Schema Markup"),
                factorValue(aiVisibility2, "Schema Markup")) >>
    ELSE <<>>

\* if (Math.abs(aiScoreDiff) > 10): the two entries of category ai
aiDifferences(data1, data2, aiScoreDiff) ==
    IF Abs(aiScoreDiff) > 10
    THEN << KeyDifference("ai", "Content Structure",
                structureValue(data1), structureValue(data2)),
            KeyDifference("ai", "Schema Markup",
                schemaValue(data1), schemaValue(data2)) >>
    ELSE <<>>

compareWebsites(data1, report1, data2, report2, aiVisibility1, aiVisibility2) ==
    LET seoScoreDiff     == report2.seoScore - report1.seoScore
        aiScoreDiff      == report2.aiScore - report1.aiScore
        aiVisibilityDiff == aiVisibility2.overallScore - aiVisibility1.overallScore
    IN  [seoScoreDiff     |-> seoScoreDiff,
         aiScoreDiff      |-> aiScoreDiff,
         aiVisibilityDiff |-> aiVisibilityDiff,
         betterPerformer  |->
             betterPerformerOf(seoScoreDiff, aiScoreDiff, aiVisibilityDiff),
         keyDifferences   |->
             seoDifferences(data1, data2, seoScoreDiff)
                 \o visibilityDifferences(aiVisibility1, aiVisibility2, aiVisibilityDiff)
                 \o aiDifferences(data1, data2, aiScoreDiff)]

----------------------------------------------------------------------------
(* The inputs.  The analyzer is a pure service: a request hands it the     *)
(* WebsiteData of one page, or of two pages to compare.  The records are   *)
(* drawn from catalogues of titles, descriptions, headings, images, links, *)
(* texts, schema markup, load times and word counts.                       *)

MaxH1 == 2              \* a page has 0..MaxH1 H1 headings
MaxImages == 1          \* a page has 0..MaxImages images
MaxExternalLinks == 7   \* a page has 0..MaxExternalLinks external links

Years == {2025, 2026}   \* what new Date().getFullYear() may return

WebsiteData(title, metaDescription, headings, images, links, content, schema, loadTime, wordCount) ==
    [title |-> title, metaDescription |-> metaDescription, headings |-> headings,
     images |-> images, links |-> links, content |-> content,
     hasSchema |-> schema.hasSchema, schemaTypes |-> schema.schemaTypes,
     loadTime |-> loadTime, wordCount |-> wordCount]

TitleText == "Search visibility guide introduction overview for river mill visitors"

MetaText ==
    "A plain description of the river mill guide for visitors who plan a walk "
    \o "along the water, with opening hours, a short history of the mill and "
    \o "notes on the stone bridge nearby."

TitleOfLength(n) == SubSeq(TitleText, 1, n)
MetaOfLength(n) == SubSeq(MetaText, 1, n)

\* the lengths around the thresholds 30 and 60 of the title check,
\* and 120 and 160 of the description check
TitleLengths == {0, 29, 30, 60, 61}
MetaLengths == {0, 119, 120, 160, 161}
LoadTimes == {500, 3000, 3001}

Heading(level, text) == [level |-> level, text |-> text]
Image(hasAlt) ==
    [src |-> "/img/mill.png", alt |-> IF hasAlt THEN "The old mill" ELSE "",
     hasAlt |-> hasAlt]
Link(isInternal) ==
    [href |-> IF isInternal THEN "/about" ELSE "https://example.org/river",
     text |-> "read more", isInternal |-> isInternal]

H1s(n) == [i \in 1..n |-> Heading(1, "River guide")]
NoHeadings == <<>>
BasicHeadings == <<Heading(1, "River guide"), Heading(2, "The old mill")>>
RichHeadings ==
    <<Heading(1, "River guide"), Heading(2, "How to find the mill?"),
      Heading(3, "Notes")>>

\* total images of which the first missing have no alt text
Images(total, missing) == [i \in 1..total |-> Image(i > missing)]
ImageLists ==
    {Images(p[1], p[2]) : p \in {q \in (0..MaxImages) \X (0..MaxImages) : q[2] <= q[1]}}

ExternalLinks(n) == [i \in 1..n |-> Link(FALSE)]

Schema(hasSchema, schemaTypes) == [hasSchema |-> hasSchema, schemaTypes |-> schemaTypes]
NoSchema == Schema(FALSE, <<>>)
BareSchema == Schema(TRUE, <<>>)
TypedSchemas ==
    {Schema(TRUE, t) : t \in {<<"FAQPage">>, <<"Article">>, <<"HowTo">>,
                              <<"Organization">>, <<"FAQPage", "Article">>,
                              <<"Article", "HowTo">>,
                              <<"FAQPage", "Article", "HowTo">>}}

EmptyContent ==
    ""

PlainContent ==
    "The quiet river runs past the old mill and under the stone bridge."

StaleContent ==
    "Archive of posts from 2017, 2018, 2019 and 2020."

WalledContent ==
    "Please login or register to read on. A premium subscription "
    \o "removes the paywall."

OpenContent ==
    "Free public guide, open access for all readers. Simply easy "
    \o "and quick, for example step by step."

SummaryContent ==
    "TL;DR: short summary of the key points. FAQ Q: What is it? A: "
    \o "An answer. Conclusion: to summarize, it works."

FreshContent ==
    "Updated today, January 2026: the latest release, version 2 is "
    \o "new this year. Revised in 2026 and 2025 and 2025."

TrustedContent ==
    "According to research published in a university journal, an "
    \o "academic study and peer review on wikipedia, .gov, .edu and "
    \o ".org sites cite an expert authority. Source: reference and citation "
    \o "by Acme Inc. and Corp. Ltd. company."

ClearContent ==
    "What is search? This guide is an introduction and overview. "
    \o "How to rank, why it matters, when, where, which and who. By "
    \o "definition it means visibility."

DataContent ==
    "Results table:\n* growth 50%\n* share 10%\n* cost $1,200\n- "
    \o "ratio 3.5 vs. 2.1\n1. 2 million users\n2. 5 days\n<b>chart</b> "
    \o "and graph versus figure, compared to statistics."

CredibleContent ==
    "Written by Jane Doe, PhD, a certified professional expert. Contact "
    \o "us or read about us and our team. Award winner, featured in "
    \o "review sites, trusted by many. Copyright 2025. Source: study."

ModerateContent ==
    "TL;DR summary. Written by staff, copyright. Updated 2026 with "
    \o "the latest study and research from wikipedia, .gov and .edu."

ParagraphContent ==
    "Short **bold** intro with *italic* words that runs a little "
    \o "over fifty characters:\n- first item\n- second item\n\nSecond "
    \o "paragraph, also a little over fifty characters long, Jane Doe "
    \o "wrote it.\n\n1. one\n2. two"

LongSentenceContent ==
    "The quiet river runs past the old mill and under the stone bridge "
    \o "while visitors wander along the northern riverbank towards "
    \o "distant farmland."

\* a summary, questions and answers, and an author with credentials
ProfileContent == join(<<SummaryContent, CredibleContent>>, " ")

Contents ==
    {EmptyContent, PlainContent, StaleContent, WalledContent, OpenContent,
     SummaryContent, FreshContent, TrustedContent, ClearContent, DataContent,
     CredibleContent, ModerateContent, ParagraphContent, LongSentenceContent}

\* the word count the scraper gives a text: content.split(/\s+/).length
countWords(content) == Len(splitRe(content, <<Plus(SpaceChars)>>))

\* a text put together from the catalogue, paragraph after paragraph
GuideContent == join(<<SummaryContent, ClearContent, OpenContent>>, "\n\n")

\* the head of a page: no title and no description, or both of a good length
Heads ==
    {[title |-> "", metaDescription |-> ""],
     [title |-> TitleOfLength(45), metaDescription |-> MetaOfLength(130)]}

\* pages without text: every combination the six SEO checks tell apart
StructurePages ==
    {WebsiteData(TitleOfLength(t), MetaOfLength(m), H1s(h), i, <<>>, EmptyContent,
                 s, l, 0) :
        t \in TitleLengths, m \in MetaLengths, h \in 0..MaxH1, i \in ImageLists,
        s \in {NoSchema, BareSchema}, l \in LoadTimes}

\* pages with text
ContentPages ==
    {WebsiteData(hd.title, hd.metaDescription, h, <<>>, <<>>, c, s, 500,
                 IF w = "long" THEN 2500 ELSE countWords(c)) :
        hd \in Heads, h \in {NoHeadings, BasicHeadings}, c \in Contents \ {EmptyContent},
        s \in {NoSchema}, w \in {"scraped", "long"}}

\* pages that differ in their external links
LinkPages ==
    {WebsiteData("", "", NoHeadings, <<>>, ExternalLinks(n), c, NoSchema, 500,
                 countWords(c)) :
        n \in 0..MaxExternalLinks, c \in {EmptyContent, ModerateContent}}

\* pages that differ in the types of their schema markup
SchemaPages ==
    {WebsiteData(hd.title, hd.metaDescription, RichHeadings, <<>>, <<>>, c, s, 500,
                 countWords(c)) :
        hd \in Heads, c \in {EmptyContent, SummaryContent},
        s \in TypedSchemas \cup {BareSchema}}

\* schema types on a record that says it has no schema markup: no scraped
\* page is like that, the analyzer takes the record all the same
UnmarkedTypes == Schema(FALSE, <<"FAQPage", "Article">>)

\* pages that differ in what the five GEO checks look at
GeoPages ==
    {WebsiteData("", "", h, <<>>, <<>>, c, s, 500, countWords(c)) :
        h \in {NoHeadings, BasicHeadings},
        c \in {PlainContent, ModerateContent, SummaryContent, CredibleContent,
               ProfileContent},
        s \in {BareSchema, UnmarkedTypes}}

AllTypes == Schema(TRUE, <<"FAQPage", "Article", "HowTo">>)

\* a well made page, with and without its schema markup
MixedPage(content, schema) ==
    WebsiteData(TitleOfLength(45), MetaOfLength(130), RichHeadings, Images(1, 0),
                ExternalLinks(3), content, schema, 500, countWords(content))

MixedPages ==
    {MixedPage(GuideContent, s) : s \in {NoSchema, AllTypes}}

\* pages that differ in what the HTML Structure factor looks at: the number
\* of H1 headings, an H2, an H3, and the lengths of the title and of the
\* description around 10 and 50
HeadingLists ==
    {H1s(n) \o h2 \o h3 :
        n \in 0..MaxH1, h2 \in {<<>>, <<Heading(2, "The old mill")>>},
        h3 \in {<<>>, <<Heading(3, "Notes")>>}}

HtmlPages ==
    {WebsiteData(TitleOfLength(t), MetaOfLength(m), h, <<>>, <<>>, EmptyContent,
                 NoSchema, 500, 0) :
        t \in {0, 10, 11}, m \in {0, 50, 51}, h \in HeadingLists}

\* pages that differ in the word count of their record, around the bounds
\* 300, 500, 2000 and 4000 of the Content Clarity factor: the analyzer takes
\* the count from the record and does not count the words of the text
WordCounts == {299, 300, 499, 500, 501, 1000, 1999, 2000, 2001, 3999, 4000}

LengthPages ==
    {WebsiteData("", "", NoHeadings, <<>>, <<>>, c, NoSchema, 500, w) :
        c \in {PlainContent, ClearContent}, w \in WordCounts}

\* pages that differ in what the Crawlability factor looks at: a title that
\* is missing, plain, or that of an error page, and a text with or without
\* the words of a login wall, of a paywall and of open access
SignInContent == "Please sign in to read the river guide."
PlanContent == "The river guide comes with a subscription plan."
MixedAccessContent == join(<<WalledContent, OpenContent>>, " ")

CrawlTitles == {"", "River guide", "404 Not Found", "Server Error"}

CrawlPages ==
    {WebsiteData(t, "", NoHeadings, <<>>, <<>>, c, NoSchema, 500, countWords(c)) :
        t \in CrawlTitles,
        c \in {EmptyContent, PlainContent, SignInContent, PlanContent, WalledContent,
               OpenContent, MixedAccessContent}}

\* a record on which every factor has its lowest score: a login wall and a
\* paywall, two stale years, no sentence, long words, no title, and a word
\* count of 4000
FloorContent == "2019! 2020! register. premiums."
FloorPages ==
    {WebsiteData("", "", NoHeadings, <<>>, <<>>, FloorContent, NoSchema, 500, w) :
        w \in {countWords(FloorContent), 4000}}

\* texts of well made pages, from a short summary to a full article
DigestContent == join(<<SummaryContent, CredibleContent, ModerateContent>>, "\n\n")
ReportContent == join(<<SummaryContent, DataContent, ModerateContent>>, "\n\n")
ArticleContent ==
    join(<<SummaryContent, ClearContent, TrustedContent, CredibleContent,
           FreshContent, DataContent>>, "\n\n")

\* well made pages whose overall scores lie in the upper summary bands
BandPages ==
    {MixedPage(c, AllTypes) :
        c \in {SummaryContent, DigestContent, ReportContent, ArticleContent}}

Pages ==
    StructurePages \cup ContentPages \cup LinkPages \cup SchemaPages \cup GeoPages
        \cup MixedPages \cup BandPages \cup HtmlPages \cup LengthPages
        \cup CrawlPages \cup FloorPages

EmptyPage == WebsiteData("", "", <<>>, <<>>, <<>>, "", NoSchema, 500, 0)

\* the pages compared with each other
ComparePages ==
    {EmptyPage,
     MixedPage(GuideContent, AllTypes),
     MixedPage(GuideContent, NoSchema),
     MixedPage(GuideContent, Schema(TRUE, <<"FAQPage", "Article">>)),
     WebsiteData(TitleOfLength(61), MetaOfLength(120), H1s(1), Images(1, 0), <<>>,
                 EmptyContent, BareSchema, 500, 0),
     WebsiteData("", "", NoHeadings, <<>>, <<>>, FreshContent, NoSchema, 500,
                 countWords(FreshContent)),
     WebsiteData("", "", NoHeadings, Images(1, 0), <<>>, EmptyContent, NoSchema,
                 3000, 0),
     WebsiteData("", "", BasicHeadings, <<>>, <<>>, ParagraphContent, BareSchema, 500,
                 countWords(ParagraphContent))}

----------------------------------------------------------------------------
(* The state machine: a request arrives with its pages, and one call of    *)
(* the analyzer answers it.  The routes share one SeoAnalyzer; a session   *)
(* is a run of calls on it, one request after the other.                   *)

MaxCalls == 2           \* a session has up to MaxCalls + 1 calls

\* the scores generateContentSuggestions is called with: the route passes
\* the GEO score of the page, or 0; the method takes any score
SuggestionScores == {0, 49, 50, 74, 75, 84, 85, 100}

\* the requests of a session
SessionPages ==
    {EmptyPage,
     WebsiteData("", "", BasicHeadings, <<>>, <<>>, ParagraphContent, BareSchema, 500,
                 countWords(ParagraphContent))}

\* pairs of pages that differ in what one factor looks at and in nothing
\* else: the schema markup, the external links, the title of an error page
SingleFactorPairs ==
    {<<MixedPage(WalledContent, AllTypes), MixedPage(WalledContent, NoSchema)>>,
     <<WebsiteData("", "", NoHeadings, <<>>, ExternalLinks(0), ModerateContent,
                   NoSchema, 500, countWords(ModerateContent)),
       WebsiteData("", "", NoHeadings, <<>>, ExternalLinks(MaxExternalLinks),
                   ModerateContent, NoSchema, 500, countWords(ModerateContent))>>,
     <<WebsiteData("River guide", "", NoHeadings, <<>>, <<>>, StaleContent, NoSchema,
                   500, countWords(StaleContent)),
       WebsiteData("Server Error", "", NoHeadings, <<>>, <<>>, StaleContent, NoSchema,
                   500, countWords(StaleContent))>>}

Requests ==
    {<<p>> : p \in Pages} \cup {<<p, q>> : p \in ComparePages, q \in ComparePages}
        \cup SingleFactorPairs \cup {<<pair[2], pair[1]>> : pair \in SingleFactorPairs}

SessionRequests ==
    {<<p>> : p \in SessionPages} \cup {<<p, q>> : p \in SessionPages, q \in SessionPages}

\* Returned by an analyzer that answers only its first call
ReturnedOnce(served, value) == IF served > 0 THEN <<>> ELSE value

\* what a method returns: SeoAnalyzer has no fields and its regular
\* expressions are literals evaluated in the call, so the value computed
\* from the arguments is the value returned, whatever calls came before
Returned(served, value) == value

\* the SeoAnalyzer before its first call
AnalyzerInit ==
    /\ op = "none"
    /\ year = 0
    /\ args = <<>>
    /\ out = <<>>
    /\ calls = 0
    /\ kept = {}

\* the server before its first request: new Map() and currentId = 1
ServerInit ==
    /\ requests = <<>>
    /\ reports = <<>>
    /\ currentId = 1

\* the Home page as useState sets it up, no request in flight
HomeInit ==
    /\ isAnalyzing = FALSE
    /\ isComparing = FALSE
    /\ currentUrl = ""
    /\ compareUrls = [url1 |-> "", url2 |-> ""]
    /\ auditReport = Null
    /\ comparisonResult = Null
    /\ activeTab = "analyze"
    /\ inFlight = {}

Init ==
    /\ AnalyzerInit /\ ServerInit /\ HomeInit
    /\ pages \in Requests

SessionInit ==
    /\ AnalyzerInit /\ ServerInit /\ HomeInit
    /\ pages \in SessionRequests

AnalyzeTraditionalSeo ==
    /\ op = "none" /\ Len(pages) = 1
    /\ op' = "analyzeTraditionalSeo"
    /\ out' = Returned(calls, analyzeTraditionalSeo(pages[1]))
    /\ UNCHANGED <<pages, year, args, calls, kept>>
    /\ UNCHANGED <<serverVars, homeVars>>

AnalyzeGeo ==
    /\ op = "none" /\ Len(pages) = 1
    /\ op' = "analyzeGeo"
    /\ out' = Returned(calls, analyzeGeo(pages[1]))
    /\ UNCHANGED <<pages, year, args, calls, kept>>
    /\ UNCHANGED <<serverVars, homeVars>>

GenerateContentSuggestions ==
    /\ op = "none" /\ Len(pages) = 1
    /\ \E aiScore \in SuggestionScores :
          /\ args' = <<aiScore>>
          /\ out' = Returned(calls, generateContentSuggestions(pages[1], aiScore))
    /\ op' = "generateContentSuggestions"
    /\ UNCHANGED <<pages, year, calls, kept>>
    /\ UNCHANGED <<serverVars, homeVars>>

AnalyzeAiPlatformVisibility ==
    /\ op = "none" /\ Len(pages) = 1
    /\ \E y \in Years :
          /\ year' = y
          /\ out' = Returned(calls, analyzeAiPlatformVisibility(pages[1], y))
    /\ op' = "analyzeAiPlatformVisibility"
    /\ UNCHANGED <<pages, args, calls, kept>>
    /\ UNCHANGED <<serverVars, homeVars>>

\* the report compareWebsites is given for a page: the scores of the two
\* analyses, each 0 when the request leaves the analysis out
Report(data, includeTraditionalSeo, includeGeo) ==
    [seoScore |-> IF includeTraditionalSeo THEN analyzeTraditionalSeo(data).score ELSE 0,
     aiScore  |-> IF includeGeo THEN analyzeGeo(data).score ELSE 0]

CompareWebsites ==
    /\ op = "none" /\ Len(pages) = 2
    /\ \E y \in Years :
       \E aiVisibility1 \in {analyzeAiPlatformVisibility(pages[1], y)} :
       \E aiVisibility2 \in {analyzeAiPlatformVisibility(pages[2], y)} :
       \E includeTraditionalSeo \in BOOLEAN : \E includeGeo \in BOOLEAN :
       \E report1 \in {Report(pages[1], includeTraditionalSeo, includeGeo)} :
       \E report2 \in {Report(pages[2], includeTraditionalSeo, includeGeo)} :
          /\ year' = y
          /\ args' = <<report1, report2>>
          /\ out' = Returned(calls,
                        [url1Report |-> report1,
                         url2Report |-> report2,
                         url1AiVisibility |-> aiVisibility1,
                         url2AiVisibility |-> aiVisibility2,
                         differences |->
                             compareWebsites(pages[1], report1, pages[2], report2,
                                             aiVisibility1, aiVisibility2)])
    /\ op' = "compareWebsites"
    /\ UNCHANGED <<pages, calls, kept>>
    /\ UNCHANGED <<serverVars, homeVars>>

\* the call made, with what it was given and what it returned
Call == [op |-> op, pages |-> pages, year |-> year, args |-> args, out |-> out]

\* the next request of the session arrives at the shared SeoAnalyzer
NextRequest ==
    /\ op # "none" /\ calls < MaxCalls
    /\ calls' = calls + 1
    /\ kept' = IF calls = 0 THEN {Call} ELSE kept
    /\ op' = "none"
    /\ year' = 0
    /\ args' = <<>>
    /\ out' = <<>>
    /\ pages' \in SessionRequests
    /\ UNCHANGED <<serverVars, homeVars>>

----------------------------------------------------------------------------
(* The server: POST /api/analyze and POST /api/compare, the scraper they   *)
(* wait for and the storage they write to.  A handler runs from one await  *)
(* to the next without interruption; the handlers of different requests    *)
(* interleave at their awaits.                                             *)

MaxRequests == 2        \* the server receives up to MaxRequests POST requests

\* z.string().url(): the text parses as an absolute URL
isUrl(text) == includes(text, "://")

\* the three include flags: all set, as they are by default, or none
Included(b) ==
    [includeTraditionalSeo |-> b, includeGeo |-> b, includeContentSuggestions |-> b]

\* the bodies posted to /api/analyze and to /api/compare
AnalyzeBodies ==
    {[urls |-> <<"https://a.example">>, flags |-> Included(b)] : b \in BOOLEAN}
        \cup {[urls |-> <<"not a url">>, flags |-> Included(TRUE)]}
CompareBodies ==
    {[urls |-> us, flags |-> Included(TRUE)] :
        us \in {<<"https://a.example", "https://a.example">>,
                <<"https://a.example", "https://b.example">>,
                <<"https://a.example", "not a url">>}}

\* analyzeUrlSchema.parse / compareUrlSchema.parse accept the body
parses(body) == \A k \in 1..Len(body.urls) : isUrl(body.urls[k])

\* a promise of the scraper: pending, rejected, or fulfilled with a record
Pending == [state |-> "pending"]
Rejected == [state |-> "rejected"]
Fulfilled(value) == [state |-> "fulfilled", value |-> value]

\* the pages the scraper finds
ScrapedPages ==
    {WebsiteData("", "", NoHeadings, <<>>, <<>>, PlainContent, NoSchema, 500,
                 countWords(PlainContent)),
     WebsiteData("River guide", "", BasicHeadings, Images(1, 0), <<>>, SignInContent,
                 BareSchema, 500, countWords(SignInContent))}

\* what a scrape may give: the fetch fails, or the page is scraped
ScrapeOutcomes == {Rejected} \cup {Fulfilled(p) : p \in ScrapedPages}

\* Promise.all over the scrapes of a request
allOf(scrapes) ==
    IF \E k \in 1..Len(scrapes) : scrapes[k].state = "rejected" THEN "rejected"
    ELSE IF \A k \in 1..Len(scrapes) : scrapes[k].state = "fulfilled" THEN "fulfilled"
    ELSE "pending"

\* the content suggestions of a request that leaves them out
NoSuggestions ==
    [missingKeywords |-> <<>>, blogTitles |-> <<>>, contentStructure |-> <<>>,
     faqs |-> <<>>,
     aiVisibility |-> [chatgpt |-> "low", perplexity |-> "low", claude |-> "low",
                       bard |-> "low"],
     aiImprovements |-> <<>>]

\* the report a handler has the storage create for a URL and its record
insertReportOf(url, data, flags) ==
    LET traditionalSeoAnalysis ==
            IF flags.includeTraditionalSeo THEN analyzeTraditionalSeo(data)
            ELSE [results |-> <<>>, score |-> 0]
        geoAnalysis ==
            IF flags.includeGeo THEN analyzeGeo(data)
            ELSE [results |-> <<>>, score |-> 0]
    IN  [url |-> url,
         seoScore |-> traditionalSeoAnalysis.score,
         aiScore |-> geoAnalysis.score,
         traditionalSeoResults |-> traditionalSeoAnalysis.results,
         geoResults |-> geoAnalysis.results,
         contentSuggestions |->
             IF flags.includeContentSuggestions
             THEN generateContentSuggestions(data, geoAnalysis.score)
             ELSE NoSuggestions]

\* Map.prototype.set
MapSet(map, key, value) ==
    [k \in DOMAIN map \cup {key} |-> IF k = key THEN value ELSE map[k]]

\* the storage with its two fields
Storage(map, nextId) == [reports |-> map, currentId |-> nextId]

Next ==
    \/ AnalyzeTraditionalSeo
    \/ AnalyzeGeo
    \/ GenerateContentSuggestions
    \/ AnalyzeAiPlatformVisibility
    \/ CompareWebsites

Spec == Init /\ [][Next]_vars

SessionNext ==
    \/ AnalyzeTraditionalSeo
    \/ AnalyzeGeo
    \/ GenerateContentSuggestions
    \/ AnalyzeAiPlatformVisibility
    \/ CompareWebsites
    \/ NextRequest

SessionSpec == SessionInit /\ [][SessionNext]_vars

----------------------------------------------------------------------------
(* The storage and the two POST handlers.                                  *)

\* createAuditReport that returns the report already stored for the url,
\* if there is one
createAuditReportOnce(storage, insertReport) ==
    LET same == {id \in DOMAIN storage.reports :
                    storage.reports[id].url = insertReport.url}
        id == storage.currentId
        report == [id |-> id] @@ insertReport
    IN  IF same # {}
        THEN [storage |-> storage, report |-> storage.reports[MinOf(same)]]
        ELSE [storage |-> Storage(MapSet(storage.reports, id, report), id + 1),
              report |-> report]

\* MemStorage.createAuditReport: the report gets the next id and is set in
\* the Map; createdAt, the time of the call, is left out
createAuditReport(storage, insertReport) ==
    LET id == storage.currentId
        report == [id |-> id] @@ insertReport
    IN  [storage |-> Storage(MapSet(storage.reports, id, report), id + 1),
         report |-> report]

\* the reports of a request created one after the other, as the elements of
\* the array given to Promise.all are evaluated
RECURSIVE createAll(_, _, _)
createAll(storage, inserts, made) ==
    IF Len(inserts) = 0 THEN [storage |-> storage, made |-> made]
    ELSE LET created == createAuditReport(storage, Head(inserts))
         IN  createAll(created.storage, Tail(inserts), Append(made, created.report))

\* a request as its handler starts: the body is parsed, and either the
\* handler answers 400 or it starts the scrapes and waits for them
received(route, body) ==
    [route |-> route, body |-> body,
     pc |-> IF parses(body) THEN "scraping" ELSE "done",
     scrapes |-> IF parses(body) THEN [k \in 1..Len(body.urls) |-> Pending] ELSE <<>>,
     made |-> <<>>,
     status |-> IF parses(body) THEN 0 ELSE 400,
     json |-> Null]

\* settle with the report of a URL created as soon as its scrape is
\* fulfilled, before the other scrape has settled
settleEagerly(request, k, outcome, storage) ==
    LET scrapes == [request.scrapes EXCEPT ![k] = outcome]
        created == IF outcome.state = "fulfilled"
                   THEN createAll(storage,
                            <<insertReportOf(request.body.urls[k], outcome.value,
                                             request.body.flags)>>,
                            request.made)
                   ELSE [storage |-> storage, made |-> request.made]
    IN  [request |-> [request EXCEPT
                         !.scrapes = scrapes,
                         !.made = created.made,
                         !.pc = IF allOf(scrapes) = "rejected" THEN "done"
                                ELSE IF allOf(scrapes) = "pending" THEN "scraping"
                                ELSE "stored",
                         !.status = IF allOf(scrapes) = "rejected" THEN 400 ELSE 0],
         storage |-> created.storage]

\* the handler of a request when one of its scrapes settles: a rejection
\* is caught and answered 400; when all are fulfilled the pages are analysed
\* and their reports created; otherwise the handler goes on waiting
settle(request, k, outcome, storage) ==
    LET scrapes == [request.scrapes EXCEPT ![k] = outcome]
        waited == allOf(scrapes)
        inserts == [i \in 1..Len(scrapes) |->
                       insertReportOf(request.body.urls[i], scrapes[i].value,
                                      request.body.flags)]
    IN  IF waited = "rejected"
        THEN [request |-> [request EXCEPT !.scrapes = scrapes, !.pc = "done",
                                          !.status = 400],
              storage |-> storage]
        ELSE IF waited = "pending"
        THEN [request |-> [request EXCEPT !.scrapes = scrapes], storage |-> storage]
        ELSE \* fulfilled
             LET created == createAll(storage, inserts, <<>>)
             IN  [request |-> [request EXCEPT !.scrapes = scrapes, !.pc = "stored",
                                               !.made = created.made],
                  storage |-> created.storage]

\* the body of the answer 200: the report, or the comparison result
jsonOf(request, currentYear) ==
    IF request.route = "analyze" THEN request.made[1]
    ELSE LET websiteData1 == request.scrapes[1].value
             websiteData2 == request.scrapes[2].value
             url1AiVisibility == analyzeAiPlatformVisibility(websiteData1, currentYear)
             url2AiVisibility == analyzeAiPlatformVisibility(websiteData2, currentYear)
         IN  [url1Report |-> request.made[1],
              url2Report |-> request.made[2],
              url1AiVisibility |-> url1AiVisibility,
              url2AiVisibility |-> url2AiVisibility,
              differences |->
                  compareWebsites(websiteData1, request.made[1],
                                  websiteData2, request.made[2],
                                  url1AiVisibility, url2AiVisibility)]

PostAnalyze ==
    /\ Len(requests) < MaxRequests
    /\ \E body \in AnalyzeBodies : requests' = Append(requests, received("analyze", body))
    /\ UNCHANGED <<reports, currentId, analyzerVars, homeVars>>

PostCompare ==
    /\ Len(requests) < MaxRequests
    /\ \E body \in CompareBodies : requests' = Append(requests, received("compare", body))
    /\ UNCHANGED <<reports, currentId, analyzerVars, homeVars>>

\* a scrape of a waiting request settles and its handler runs to its next
\* await
ScrapeSettles ==
    /\ \E r \in 1..Len(requests) :
          /\ requests[r].pc = "scraping"
          /\ \E k \in 1..Len(requests[r].scrapes) :
                /\ requests[r].scrapes[k] = Pending
                /\ \E outcome \in ScrapeOutcomes :
                   \E next \in {settle(requests[r], k, outcome,
                                        Storage(reports, currentId))} :
                      /\ requests' = [requests EXCEPT ![r] = next.request]
                      /\ reports' = next.storage.reports
                      /\ currentId' = next.storage.currentId
    /\ UNCHANGED <<analyzerVars, homeVars>>

\* the reports are stored and the handler answers: res.json(...)
Respond ==
    /\ \E r \in 1..Len(requests) :
          /\ requests[r].pc = "stored"
          /\ \E currentYear \in Years :
                requests' = [requests EXCEPT
                                ![r].pc = "done",
                                ![r].status = 200,
                                ![r].json = jsonOf(requests[r], currentYear)]
    /\ UNCHANGED <<reports, currentId, analyzerVars, homeVars>>

ServerNext ==
    \/ PostAnalyze
    \/ PostCompare
    \/ ScrapeSettles
    \/ Respond

\* the server starts with an empty store and no request
ServerStart == AnalyzerInit /\ ServerInit /\ HomeInit /\ pages = <<>>

ServerSpec == ServerStart /\ [][ServerNext]_vars

----------------------------------------------------------------------------
(* The Home page: its state and the callbacks it gives to the two forms.   *)

\* the URLs the visitor submits
HomeUrls == {"https://a.example", "https://b.example"}

\* the reports POST /api/analyze answers with
AnalysisReports ==
    {createAuditReport(Storage(<<>>, 1),
                       insertReportOf(url, data, Included(TRUE))).report :
        url \in HomeUrls, data \in ScrapedPages}

\* the results POST /api/compare answers with
ComparisonResults ==
    {jsonOf([route |-> "compare",
             scrapes |-> <<Fulfilled(d[1]), Fulfilled(d[2])>>,
             made |-> createAll(Storage(<<>>, 1),
                                <<insertReportOf(u[1], d[1], Included(TRUE)),
                                  insertReportOf(u[2], d[2], Included(TRUE))>>,
                                <<>>).made],
            2024) :
        u \in {<<"https://a.example", "https://b.example">>,
               <<"https://a.example", "https://a.example">>},
        d \in {<<p, q>> : p \in ScrapedPages, q \in ScrapedPages}}

\* a form submits when it has no request of its own in flight; the request
\* of the other form may be in flight
mayStart(form) == form \notin inFlight

HandleAnalysisStart ==
    /\ mayStart("analysis")
    /\ \E url \in HomeUrls : currentUrl' = url
    /\ isAnalyzing' = TRUE
    /\ auditReport' = Null
    /\ comparisonResult' = Null
    /\ inFlight' = inFlight \cup {"analysis"}
    /\ UNCHANGED <<isComparing, compareUrls, activeTab, analyzerVars, serverVars>>

HandleAnalysisComplete ==
    /\ "analysis" \in inFlight
    /\ isAnalyzing' = FALSE
    /\ \E report \in AnalysisReports :
          /\ report.url = currentUrl
          /\ auditReport' = report
    /\ inFlight' = inFlight \ {"analysis"}
    /\ UNCHANGED <<isComparing, currentUrl, compareUrls, comparisonResult, activeTab,
                   analyzerVars, serverVars>>

HandleAnalysisError ==
    /\ "analysis" \in inFlight
    /\ isAnalyzing' = FALSE
    /\ inFlight' = inFlight \ {"analysis"}
    /\ UNCHANGED <<isComparing, currentUrl, compareUrls, auditReport, comparisonResult,
                   activeTab, analyzerVars, serverVars>>

HandleComparisonStart ==
    /\ mayStart("comparison")
    /\ \E url1 \in HomeUrls, url2 \in HomeUrls :
          compareUrls' = [url1 |-> url1, url2 |-> url2]
    /\ isComparing' = TRUE
    /\ comparisonResult' = Null
    /\ auditReport' = Null
    /\ inFlight' = inFlight \cup {"comparison"}
    /\ UNCHANGED <<isAnalyzing, currentUrl, activeTab, analyzerVars, serverVars>>

HandleComparisonComplete ==
    /\ "comparison" \in inFlight
    /\ isComparing' = FALSE
    /\ \E result \in ComparisonResults : comparisonResult' = result
    /\ inFlight' = inFlight \ {"comparison"}
    /\ UNCHANGED <<isAnalyzing, currentUrl, compareUrls, auditReport, activeTab,
                   analyzerVars, serverVars>>

HandleComparisonError ==
    /\ "comparison" \in inFlight
    /\ isComparing' = FALSE
    /\ inFlight' = inFlight \ {"comparison"}
    /\ UNCHANGED <<isAnalyzing, currentUrl, compareUrls, auditReport, comparisonResult,
                   activeTab, analyzerVars, serverVars>>

\* onValueChange of the tabs
SetActiveTab ==
    /\ \E tab \in {"analyze", "compare"} \ {activeTab} : activeTab' = tab
    /\ UNCHANGED <<isAnalyzing, isComparing, currentUrl, compareUrls, auditReport,
                   comparisonResult, inFlight, analyzerVars, serverVars>>

HomeNext ==
    \/ HandleAnalysisStart
    \/ HandleAnalysisComplete
    \/ HandleAnalysisError
    \/ HandleComparisonStart
    \/ HandleComparisonComplete
    \/ HandleComparisonError
    \/ SetActiveTab

\* the page is mounted
HomeStart == AnalyzerInit /\ ServerInit /\ HomeInit /\ pages = <<>>

HomeSpec == HomeStart /\ [][HomeNext]_vars

----------------------------------------------------------------------------
(* Properties.  After a call op names the operation, pages holds its       *)
(* input and out its result.                                               *)

Visibility == op = "analyzeAiPlatformVisibility"
Comparison == op = "compareWebsites"

\* C1: whatever bonuses and penalties stack, each of the twelve factor
\* scores, the overall score, the traditional SEO score and the GEO score is
\* an integer from 0 to 100.
C1_ScoresInRange ==
    /\ Visibility =>
          /\ Len(out.factors) = 12
          /\ \A i \in 1..Len(out.factors) : out.factors[i].score \in 0..100
          /\ out.overallScore \in 0..100
    /\ op \in {"analyzeTraditionalSeo", "analyzeGeo"} => out.score \in 0..100

\* a text naming the four stale years and nothing fresh is analysed: the
\* freshness points are below the floor and the score is the floor
C1_StaleYearsAnalysed ==
    /\ Visibility
    /\ pages[1].content = StaleContent
    /\ freshnessPoints(pages[1], year) < 0
    /\ out.factors[11].factor = "Content Freshness"
    /\ out.factors[11].score = 5

\* C2: the overall score is the sum S of the twelve factor scores returned
\* with it, as a share of 1200 in percent, rounded to the nearest integer
\* with a half going up: round(S / 1200 * 100).
C2_OverallIsRoundedShare ==
    Visibility =>
        out.overallScore = RoundRatio(100 * Sum(Scores(out.factors)), maxScore)

\* C3: the status of a factor is pass exactly when its score is at least 80,
\* warning exactly when it is at least 50 and below 80, fail exactly when it
\* is below 50.
C3_StatusByBand ==
    Visibility =>
        \A i \in 1..Len(out.factors) :
            LET f == out.factors[i]
            IN  /\ f.status = "pass" <=> f.score >= 80
                /\ f.status = "warning" <=> (f.score >= 50 /\ f.score < 80)
                /\ f.status = "fail" <=> f.score < 50

\* an analysis with one factor at exactly 80 and another at exactly 50
C3_BoundaryScores ==
    /\ Visibility
    /\ \E i \in 1..Len(out.factors) :
          out.factors[i].score = 80 /\ out.factors[i].status = "pass"
    /\ \E i \in 1..Len(out.factors) :
          out.factors[i].score = 50 /\ out.factors[i].status = "warning"

\* C4: the three differences are those of the second side minus the first,
\* and the better performer is url2 exactly when their sum is above 0; a sum
\* of 0, also one of differences that cancel, gives url1.
C4_DifferencesAndPerformer ==
    Comparison =>
        LET d == out.differences
        IN  /\ d.seoScoreDiff = out.url2Report.seoScore - out.url1Report.seoScore
            /\ d.aiScoreDiff = out.url2Report.aiScore - out.url1Report.aiScore
            /\ d.aiVisibilityDiff
                   = out.url2AiVisibility.overallScore - out.url1AiVisibility.overallScore
            /\ d.betterPerformer
                   = IF d.seoScoreDiff + d.aiScoreDiff + d.aiVisibilityDiff > 0
                     THEN "url2" ELSE "url1"

\* a comparison whose differences are not zero and cancel
C4_CancellingDifferences ==
    /\ Comparison
    /\ out.differences.seoScoreDiff # 0
    /\ out.differences.seoScoreDiff + out.differences.aiScoreDiff
           + out.differences.aiVisibilityDiff = 0
    /\ out.differences.betterPerformer = "url1"

\* C5: comparing the two sides the other way round negates the three
\* differences; it changes the better performer when their sum is not 0,
\* and both ways give url1 when it is 0.
C5_Symmetry ==
    Comparison =>
        LET d == out.differences
            s == compareWebsites(pages[2], out.url2Report, pages[1], out.url1Report,
                                 out.url2AiVisibility, out.url1AiVisibility)
            sum == d.seoScoreDiff + d.aiScoreDiff + d.aiVisibilityDiff
        IN  /\ s.seoScoreDiff = -d.seoScoreDiff
            /\ s.aiScoreDiff = -d.aiScoreDiff
            /\ s.aiVisibilityDiff = -d.aiVisibilityDiff
            /\ sum # 0 => s.betterPerformer # d.betterPerformer
            /\ sum = 0 => s.betterPerformer = "url1" /\ d.betterPerformer = "url1"

\* a comparison of two different pages that the first side wins
C5_FirstSideWins ==
    /\ Comparison
    /\ pages[1] # pages[2]
    /\ out.differences.seoScoreDiff + out.differences.aiScoreDiff
           + out.differences.aiVisibilityDiff < 0
    /\ out.differences.betterPerformer = "url1"

\* C6: the key differences are the two seo entries exactly when
\* |seoScoreDiff| > 10, then the two visibility entries exactly when
\* |aiVisibilityDiff| > 15, then the two ai entries exactly when
\* |aiScoreDiff| > 10; so there are 0, 2, 4 or 6 of them.
C6_KeyDifferencesByThreshold ==
    Comparison =>
        LET d == out.differences
            Entries(on, category, first, second) ==
                IF on THEN << <<category, first>>, <<category, second>> >> ELSE <<>>
        IN  /\ [i \in 1..Len(d.keyDifferences) |->
                   <<d.keyDifferences[i].category, d.keyDifferences[i].aspect>>]
                 = Entries(Abs(d.seoScoreDiff) > 10, "seo",
                           "Title Tag Optimization", "Meta Description")
                   \o Entries(Abs(d.aiVisibilityDiff) > 15, "visibility",
                              "AI Platform Summary", "Structured Data Implementation")
                   \o Entries(Abs(d.aiScoreDiff) > 10, "ai",
                              "Content Structure", "Schema Markup")
            /\ Len(d.keyDifferences) \in {0, 2, 4, 6}

\* a comparison with a visibility difference of exactly 15 and an SEO
\* difference above 10: only the two seo entries are listed
C6_VisibilityAtFifteen ==
    /\ Comparison
    /\ Abs(out.differences.aiVisibilityDiff) = 15
    /\ Abs(out.differences.seoScoreDiff) > 10
    /\ Len(out.differences.keyDifferences) = 2
    /\ out.differences.keyDifferences[1].category = "seo"

\* the action of the recommendation each factor has a template for
FailAction ==
    ("TL;DR & Summary" :> "Add TL;DR Summary Section")
        @@ ("Q&A Format" :> "Create FAQ Section")
        @@ ("Schema Markup" :> "Implement Structured Data")
        @@ ("Content Clarity" :> "Improve Content Structure")

WarningAction ==
    ("HTML Structure" :> "Improve Heading Structure")
        @@ ("Content Scannability" :> "Break Content into Short Paragraphs")
        @@ ("Readability Level" :> "Simplify Language")

GenericActions == {"Add Current Year References", "Add Statistics and Data"}

\* the factor has a recommendation of its own coming
Due(f) ==
    \/ f.status = "fail" /\ f.factor \in DOMAIN FailAction
    \/ f.status = "warning" /\ f.factor \in DOMAIN WarningAction

\* the actions of the recommendations that belong to the factor
ActionsOf(f) ==
    (IF f.factor \in DOMAIN FailAction THEN {FailAction[f.factor]} ELSE {})
        \cup (IF f.factor \in DOMAIN WarningAction THEN {WarningAction[f.factor]} ELSE {})

\* C7: a factor has a recommendation of its own exactly when it fails and is
\* one of TL;DR & Summary, Q&A Format, Schema Markup, Content Clarity, or is
\* in warning and is one of HTML Structure, Content Scannability, Readability
\* Level; no other factor and no other status brings one.
C7_SpecificRecommendations ==
    Visibility =>
        LET actions == {out.recommendations[k].action : k \in 1..Len(out.recommendations)}
        IN  /\ \A i \in 1..Len(out.factors) :
                   (ActionsOf(out.factors[i]) \cap actions # {}) <=> Due(out.factors[i])
            /\ \A a \in actions \ GenericActions :
                   \E i \in 1..Len(out.factors) :
                       Due(out.factors[i]) /\ a \in ActionsOf(out.factors[i])

\* an analysis where HTML Structure fails, Content Clarity is in warning and
\* TL;DR & Summary fails: only the last has a recommendation of its own
C7_TemplatesMissing ==
    /\ Visibility
    /\ out.factors[2].factor = "HTML Structure" /\ out.factors[2].status = "fail"
    /\ out.factors[3].factor = "Content Clarity" /\ out.factors[3].status = "warning"
    /\ out.factors[5].factor = "TL;DR & Summary" /\ out.factors[5].status = "fail"
    /\ \E k \in 1..Len(out.recommendations) :
          out.recommendations[k].action = "Add TL;DR Summary Section"

\* the actions pushed for the factors and the overall score, in order:
\* failing factors, factors in warning, the generic ones
PushedActions(factors, overallScore) ==
    LET failing == SelectSeq(factors,
                       LAMBDA f : f.status = "fail" /\ f.factor \in DOMAIN FailAction)
        warning == SelectSeq(factors,
                       LAMBDA f : f.status = "warning" /\ f.factor \in DOMAIN WarningAction)
    IN  [i \in 1..Len(failing) |-> FailAction[failing[i].factor]]
            \o [i \in 1..Len(warning) |-> WarningAction[warning[i].factor]]
            \o (IF overallScore < 70 THEN <<"Add Current Year References">> ELSE <<>>)
            \o (IF overallScore < 50 THEN <<"Add Statistics and Data">> ELSE <<>>)

\* 1 for an entry of a failing factor, 2 for one of a factor in warning,
\* 3 for a generic one
RankOf(action) ==
    IF \E n \in DOMAIN FailAction : FailAction[n] = action THEN 1
    ELSE IF \E n \in DOMAIN WarningAction : WarningAction[n] = action THEN 2
    ELSE 3

\* C8: the recommendations are the first 8 of: those of the failing factors
\* in factor order, then those of the factors in warning in factor order,
\* then the generic ones; never more than 8, and in that order.
C8_FirstEightInOrder ==
    Visibility =>
        LET pushed == PushedActions(out.factors, out.overallScore)
            recs == out.recommendations
        IN  /\ Len(recs) <= 8
            /\ [k \in 1..Len(recs) |-> recs[k].action]
                   = SubSeq(pushed, 1, Min2(8, Len(pushed)))
            /\ \A j \in 1..Len(recs) : \A k \in j..Len(recs) :
                   RankOf(recs[j].action) <= RankOf(recs[k].action)

\* an analysis that pushes nine recommendations and returns eight
C8_NinePushed ==
    /\ Visibility
    /\ Len(PushedActions(out.factors, out.overallScore)) = 9
    /\ Len(out.recommendations) = 8

\* C9: for the empty record analyzeTraditionalSeo returns the score 15; the
\* load-time result is a success and every other result is an error or a
\* warning.
C9_EmptyRecord ==
    op = "analyzeTraditionalSeo" /\ pages[1] = EmptyPage =>
        /\ out.score = 15
        /\ \E i \in 1..Len(out.results) :
              /\ out.results[i].title = "Good page load time"
              /\ out.results[i].type = "success"
              /\ \A j \in 1..Len(out.results) \ {i} :
                     out.results[j].type \in {"error", "warning"}

\* the empty record has been analysed
C9_EmptyRecordAnalysed ==
    /\ op = "analyzeTraditionalSeo"
    /\ pages[1] = EmptyPage
    /\ Len(out.results) > 0

\* the check each result title belongs to
CheckOf ==
    [t \in {"Missing title tag", "Title tag too short", "Title tag too long",
            "Title tag length optimal"} |-> "title"]
    @@ [t \in {"Missing meta description", "Meta description too short",
               "Meta description too long", "Meta description length optimal"}
           |-> "meta description"]
    @@ [t \in {"Missing H1 tag", "Multiple H1 tags found", "Proper H1 structure"}
           |-> "H1"]
    @@ [t \in {"Missing alt text on images", "All images have alt text"}
           |-> "image alt text"]
    @@ [t \in {"No schema markup found", "Schema markup present"} |-> "schema"]
    @@ [t \in {"Slow page load time", "Good page load time"} |-> "load time"]
    @@ [t \in {"Content structured with H2 headings", "Poor heading structure for AI"}
           |-> "H2 structure"]
    @@ [t \in {"No TL;DR summary found", "Summary content present"} |-> "summary"]
    @@ [t \in {"Limited question-answer format", "Question-answer format detected"}
           |-> "question-answer"]
    @@ [t \in {"Missing schema markup", "Schema markup enhances AI understanding"}
           |-> "schema"]
    @@ [t \in {"Good entity and semantic clarity", "Moderate entity and semantic clarity"}
           |-> "entities"]

\* the checks of the results returned, in order
ChecksReturned == [i \in 1..Len(out.results) |-> CheckOf[out.results[i].title]]

Points(condition, points) == IF condition THEN points ELSE 0

\* the text has one of the words, whatever the case of its letters
Mentions(content, words) == \E w \in words : includes(toLowerCase(content), w)

\* the text names 2023 or 2024 or has two capitalised words in a row
NamesEntity(content) ==
    \/ includes(content, "2024")
    \/ includes(content, "2023")
    \/ test(ProperNounPair, content)

\* C11: the GEO score is 20 for a heading of level 2, plus 25 for a summary
\* keyword in the text, plus 20 for a question-answer pattern, plus 20 for
\* schema markup, plus 15 for an entity or a year; so a page with an H2
\* heading, "TL;DR" in its text and schema markup scores at least 65, and
\* the score is 100 only when all five checks succeed.
C11_GeoScoreIsSum ==
    op = "analyzeGeo" =>
        LET data == pages[1]
            h2 == \E i \in 1..Len(data.headings) : data.headings[i].level = 2
            summary == Mentions(data.content, {"tl;dr", "summary", "key takeaways"})
            questions ==
                \/ Mentions(data.content, {"what is", "how to", "why"})
                \/ \E i \in 1..Len(data.headings) : includes(data.headings[i].text, "?")
            entity == NamesEntity(data.content)
        IN  /\ out.score = Points(h2, 20) + Points(summary, 25) + Points(questions, 20)
                               + Points(data.hasSchema, 20) + Points(entity, 15)
            /\ h2 /\ includes(data.content, "TL;DR") /\ data.hasSchema => out.score >= 65
            /\ out.score = 100 =>
                   \A i \in 1..Len(out.results) : out.results[i].type = "success"

\* a page with an H2 heading, TL;DR and schema markup and nothing else
\* has been analysed: 65
C11_SixtyFive ==
    /\ op = "analyzeGeo"
    /\ hasLevel2(pages[1]) /\ pages[1].hasSchema /\ includes(pages[1].content, "TL;DR")
    /\ out.score = 65

\* the types of the schema markup of a record, as a set
TypesOf(data) == {data.schemaTypes[i] : i \in 1..Len(data.schemaTypes)}

\* C12: the Schema Markup factor scores 0 when hasSchema is false, whatever
\* the schema types are, and otherwise 50, plus 20 for FAQPage, plus 15
\* for Article, plus 15 for HowTo among the types; so the types FAQPage and
\* Article give 85 and pass, and no schema gives 0 and fail.
C12_SchemaMarkupScore ==
    Visibility =>
        LET data == pages[1]
            f == out.factors[7]
        IN  /\ f.factor = "Schema Markup"
            /\ f.score = IF ~data.hasSchema THEN 0
                         ELSE 50 + Points("FAQPage" \in TypesOf(data), 20)
                                 + Points("Article" \in TypesOf(data), 15)
                                 + Points("HowTo" \in TypesOf(data), 15)
            /\ data.hasSchema /\ TypesOf(data) = {"FAQPage", "Article"} =>
                   f.score = 85 /\ f.status = "pass"
            /\ ~data.hasSchema => f.score = 0 /\ f.status = "fail"

\* a record without schema markup that lists schema types has been
\* analysed: 0
C12_TypesWithoutSchema ==
    /\ Visibility
    /\ ~pages[1].hasSchema /\ TypesOf(pages[1]) = {"FAQPage", "Article"}
    /\ out.factors[7].score = 0

\* the key differences list an entry of the aspect with the two values
Cites(aspect, url1Value, url2Value) ==
    \E k \in 1..Len(out.differences.keyDifferences) :
        LET e == out.differences.keyDifferences[k]
        IN  e.aspect = aspect /\ e.url1Value = url1Value /\ e.url2Value = url2Value

\* the score of a factor of an assessment, as the key differences write it
Cited(aiVisibility, i) == ToString(aiVisibility.factors[i].score) \o "/100"

\* C13: when |aiVisibilityDiff| > 15 the key differences have an entry
\* Structured Data Implementation whose two values are the Schema Markup
\* factor scores of the first and of the second side, written <score>/100,
\* and an entry AI Platform Summary with the TL;DR & Summary factor scores
\* written the same way.
C13_VisibilityEntriesCiteScores ==
    Comparison /\ Abs(out.differences.aiVisibilityDiff) > 15 =>
        /\ out.url1AiVisibility.factors[5].factor = "TL;DR & Summary"
        /\ out.url2AiVisibility.factors[5].factor = "TL;DR & Summary"
        /\ out.url1AiVisibility.factors[7].factor = "Schema Markup"
        /\ out.url2AiVisibility.factors[7].factor = "Schema Markup"
        /\ Cites("Structured Data Implementation",
                 Cited(out.url1AiVisibility, 7), Cited(out.url2AiVisibility, 7))
        /\ Cites("AI Platform Summary",
                 Cited(out.url1AiVisibility, 5), Cited(out.url2AiVisibility, 5))

\* a page without schema markup has been compared with a page with the
\* schema types FAQPage and Article, and the visibility differs by more
\* than 15: 0/100 and 85/100
C13_ZeroAndEightyFive ==
    /\ Comparison
    /\ out.differences.aiVisibilityDiff > 15
    /\ Cites("Structured Data Implementation", "0/100", "85/100")

\* the call is the one kept, made again
SameCall(c) == c.op = op /\ c.pages = pages /\ c.year = year /\ c.args = args

Suggestions == op = "generateContentSuggestions"

\* the priorities of the improvements returned, in order
PrioritiesReturned == [k \in 1..Len(out.aiImprovements) |-> out.aiImprovements[k].priority]

\* C15: the improvements have the priorities 1 to 6 for a score below 50,
\* 3 to 7 for a score from 50 and below 75, 6 and 7 for a score from 75 and
\* below 85, and 8, 9, 10 for a score from 85; there are never more than 6
\* and their priorities increase strictly.
C15_ImprovementsByBand ==
    Suggestions =>
        LET score == args[1]
        IN  /\ PrioritiesReturned
                   = IF score < 50 THEN <<1, 2, 3, 4, 5, 6>>
                     ELSE IF score < 75 THEN <<3, 4, 5, 6, 7>>
                     ELSE IF score < 85 THEN <<6, 7>>
                     ELSE <<8, 9, 10>>
            /\ Len(out.aiImprovements) <= 6
            /\ \A j \in 1..Len(out.aiImprovements) : \A k \in 1..Len(out.aiImprovements) :
                   j < k => PrioritiesReturned[j] < PrioritiesReturned[k]

\* suggestions for the score 49: seven improvements are pushed and the one
\* of priority 7 is cut
C15_SeventhCut ==
    /\ Suggestions
    /\ args[1] = 49
    /\ Len(allImprovements(args[1])) = 7
    /\ Len(out.aiImprovements) = 6

FactorCatalogue ==
    <<"Public Crawlability", "HTML Structure", "Content Clarity", "Content Scannability",
      "TL;DR & Summary", "Q&A Format", "Schema Markup", "Trusted Entities",
      "Data Extraction", "Readability Level", "Content Freshness", "Credibility Markers">>

\* the names of the factors of an assessment, in order
NamesOf(aiVisibility) == [i \in 1..Len(aiVisibility.factors) |-> aiVisibility.factors[i].factor]

\* C17: every assessment has exactly the twelve factors of the catalogue,
\* in its order, whatever the record; so the comparison finds the factors
\* it looks up by name and never writes Not assessed.
C17_FactorCatalogue ==
    /\ Cardinality({FactorCatalogue[i] : i \in 1..Len(FactorCatalogue)}) = 12
    /\ Visibility => NamesOf(out) = FactorCatalogue
    /\ Comparison =>
          /\ NamesOf(out.url1AiVisibility) = FactorCatalogue
          /\ NamesOf(out.url2AiVisibility) = FactorCatalogue
          /\ \A k \in 1..Len(out.differences.keyDifferences) :
                 /\ out.differences.keyDifferences[k].url1Value # "Not assessed"
                 /\ out.differences.keyDifferences[k].url2Value # "Not assessed"

\* a comparison that looked up the two factors by name
C17_FactorsLookedUp ==
    /\ Comparison
    /\ \E k \in 1..Len(out.differences.keyDifferences) :
          out.differences.keyDifferences[k].category = "visibility"
    /\ pages[1] = EmptyPage

\* the points and the result type of a check on a text that may be
\* missing, or have a length outside or inside a range
LengthBranch(text, low, high) ==
    IF text = "" THEN <<0, "error">>
    ELSE IF Len(text) < low \/ Len(text) > high THEN <<10, "warning">>
    ELSE <<20, "success">>

\* C18: the traditional SEO score is the sum, capped at 100, of the points
\* of the branch each check takes: title missing 0 (error), of a length
\* outside 30..60 10 (warning), inside 20 (success); meta description the
\* same with 120..160; no H1 0, more than one 10, exactly one 15; every
\* image with alt text 15; schema markup 15; a load time up to 3000 15, and
\* above 3000 0 (warning).
C18_SeoScoreByBranch ==
    op = "analyzeTraditionalSeo" =>
        LET data == pages[1]
            title == LengthBranch(data.title, 30, 60)
            meta == LengthBranch(data.metaDescription, 120, 160)
            h1Count == Cardinality({i \in 1..Len(data.headings) : data.headings[i].level = 1})
            h1 == IF h1Count = 0 THEN 0 ELSE IF h1Count > 1 THEN 10 ELSE 15
            complete == /\ Len(data.images) > 0
                        /\ \A i \in 1..Len(data.images) : data.images[i].hasAlt
            last == out.results[Len(out.results)]
        IN  /\ out.score = Min2(100, title[1] + meta[1] + h1 + Points(complete, 15)
                                         + Points(data.hasSchema, 15)
                                         + Points(data.loadTime <= 3000, 15))
            /\ out.results[1].type = title[2]
            /\ out.results[2].type = meta[2]
            /\ last.type = IF data.loadTime > 3000 THEN "warning" ELSE "success"

\* a page at the bounds has been analysed: a title of 60 characters, a
\* description of 120 and a load time of 3000 all pass, and the score is 100
C18_AtTheBounds ==
    /\ op = "analyzeTraditionalSeo"
    /\ Len(pages[1].title) = 60
    /\ Len(pages[1].metaDescription) = 120
    /\ pages[1].loadTime = 3000
    /\ out.score = 100

\* the actions of the recommendations returned
ActionsReturned == {out.recommendations[k].action : k \in 1..Len(out.recommendations)}

\* C19: the recommendations of an assessment with an overall score below
\* 70 contain Add Current Year References, and those of one with an overall
\* score below 50 contain Add Statistics and Data as well, whatever the
\* statuses of the factors are.
C19_GenericTipsAlways ==
    Visibility =>
        /\ out.overallScore < 70 => "Add Current Year References" \in ActionsReturned
        /\ out.overallScore < 50 => "Add Statistics and Data" \in ActionsReturned

\* the rank of a priority: high before medium before low
PriorityRank == ("high" :> 1) @@ ("medium" :> 2) @@ ("low" :> 3)

\* C20: in the recommendations of every assessment each entry of priority
\* high comes before each entry of priority medium, and each entry of
\* priority medium before each entry of priority low.
C20_HighBeforeMedium ==
    Visibility =>
        \A j \in 1..Len(out.recommendations) : \A k \in 1..Len(out.recommendations) :
            j < k => PriorityRank[out.recommendations[j].priority]
                         <= PriorityRank[out.recommendations[k].priority]

\* the number of factors returned with a status
Counted(status) ==
    Cardinality({i \in 1..Len(out.factors) : out.factors[i].status = status})

\* the text has no digit in it: no count is written into it
Countless(text) == \A i \in 1..Len(text) : CharAt(text, i) \notin DigitChars

\* C21: the summary is chosen by the band of the overall score alone, the
\* bounds 80, 60 and 40 in the upper band, among four templates; three of
\* them carry counts of the factors returned: from 60 to 79 the number in
\* fail or warning, from 40 to 59 the number in fail and the number in
\* warning, below 40 the number in fail; from 80 on the text is fixed.  The
\* numbers in pass, warning and fail add up to 12.
C21_SummaryByBand ==
    Visibility =>
        /\ Counted("pass") + Counted("warning") + Counted("fail") = 12
        /\ out.overallScore >= 80 =>
               out.summary = "Excellent AI platform visibility with strong "
                                 \o "optimization across most factors"
        /\ out.overallScore \in 60..79 =>
               out.summary = "Good AI visibility with "
                                 \o ToString(Counted("fail") + Counted("warning"))
                                 \o " areas needing improvement"
        /\ out.overallScore \in 40..59 =>
               out.summary = "Moderate AI visibility. " \o ToString(Counted("fail"))
                                 \o " critical issues and "
                                 \o ToString(Counted("warning"))
                                 \o " warnings to address"
        /\ out.overallScore < 40 =>
               out.summary = "Poor AI platform visibility. Significant "
                                 \o "optimization needed across "
                                 \o ToString(Counted("fail")) \o " critical areas"

\* an analysis at the bound 40 whose summary counts the factors in fail and
\* those in warning
C21_ModerateAtForty ==
    /\ Visibility
    /\ out.overallScore = 40
    /\ Counted("fail") > 0 /\ Counted("warning") > 0
    /\ ~Countless(out.summary)

\* C21 as first stated: only two of the four templates carry a count, that
\* of the band from 60 to 79 and that of the band below 40; the summary of
\* the band from 40 to 59, like that of the band from 80 on, is a fixed text.
C21_TwoTemplatesCount ==
    Visibility =>
        /\ Counted("pass") + Counted("warning") + Counted("fail") = 12
        /\ out.overallScore >= 80 \/ out.overallScore \in 40..59 =>
               Countless(out.summary)
        /\ out.overallScore \in 60..79 =>
               out.summary = "Good AI visibility with "
                                 \o ToString(Counted("fail") + Counted("warning"))
                                 \o " areas needing improvement"
        /\ out.overallScore < 40 =>
               out.summary = "Poor AI platform visibility. Significant "
                                 \o "optimization needed across "
                                 \o ToString(Counted("fail")) \o " critical areas"

\* the number of headings of a level on the page analysed
HeadingsOf(level) ==
    Cardinality({i \in 1..Len(pages[1].headings) : pages[1].headings[i].level = level})

\* the points of the HTML Structure factor that do not come from the H1 count
StructurePoints ==
    Points(HeadingsOf(2) > 0, 25) + Points(HeadingsOf(3) > 0, 15)
        + Points(Len(pages[1].title) > 10, 20)
        + Points(Len(pages[1].metaDescription) > 50, 15)

\* C22: the HTML Structure score is 25 for exactly one H1 or 10 for several
\* H1s (none for no H1), plus 25 for some H2, 15 for some H3, 20 for a title
\* longer than 10 and 15 for a description longer than 50; it is at most 100.
C22_HtmlStructureScore ==
    Visibility =>
        /\ out.factors[2].factor = "HTML Structure"
        /\ out.factors[2].score =
               Points(HeadingsOf(1) = 1, 25) + Points(HeadingsOf(1) > 1, 10)
                   + StructurePoints
        /\ out.factors[2].score <= 100

\* a page with two H1 headings and everything else the factor looks for
C22_SeveralH1 ==
    /\ Visibility
    /\ HeadingsOf(1) = 2
    /\ StructurePoints = 75
    /\ out.factors[2].score = 85

\* C22 as first stated: H1 points only for exactly one H1, no H1 and several
\* H1s both earning none.
C22_OnlyOneH1Scores ==
    Visibility =>
        /\ out.factors[2].factor = "HTML Structure"
        /\ out.factors[2].score = Points(HeadingsOf(1) = 1, 25) + StructurePoints
        /\ out.factors[2].score <= 100

\* the word-count bonus of the Content Clarity factor
LengthBonus(wordCount) ==
    IF wordCount \in 501..1999 THEN 25
    ELSE IF wordCount \in 2000..3999 THEN 20
    ELSE IF wordCount \in 300..500 THEN 15
    ELSE IF wordCount < 300 THEN 5
    ELSE 0

\* the Content Clarity score of the same record with the word count 1000
ClarityAtThousand == assessContentClarity([pages[1] EXCEPT !.wordCount = 1000])

\* C23: the word-count bonus of Content Clarity takes its peak value 25 for
\* every word count from 501 to 1999 and no other word count earns as much:
\* 500 earns 15 and 2000 earns 20.  All other things equal, and below the cap
\* of 100, a record scores as much less than the one with word count 1000
\* as its bonus is less than 25.
C23_PeakInsideTheBand ==
    Visibility =>
        /\ out.factors[3].factor = "Content Clarity"
        /\ \E peer \in {ClarityAtThousand} :
               peer < 100 =>
                   out.factors[3].score = peer - (25 - LengthBonus(pages[1].wordCount))
        /\ LengthBonus(pages[1].wordCount) = 25 <=> pages[1].wordCount \in 501..1999

\* a record with the word count 500: 10 points less than with the word
\* count 1000
C23_AtFiveHundred ==
    /\ Visibility
    /\ pages[1].wordCount = 500
    /\ pages[1].content = ClearContent
    /\ out.factors[3].score = 85
    /\ ClarityAtThousand = 95

\* C23 as first stated: every word count from 500 to 2000, bounds included,
\* earns the peak bonus: a record with word count 500 or 2000 scores the
\* same as the one with word count 1000.
C23_PeakFrom500To2000 ==
    Visibility /\ pages[1].wordCount \in 500..2000 =>
        out.factors[3].score = ClarityAtThousand

\* the title names an error page, whatever the case of its letters
ErrorTitle(title) == Mentions(title, {"404", "error"})

\* the points of the Crawlability factor before the title bonus
AccessPoints(content) ==
    70 - Points(Mentions(content, {"login", "sign in", "register"}), 30)
       - Points(Mentions(content, {"subscription", "premium", "paywall"}), 20)
       + Points(Mentions(content, {"free", "public", "open access"}), 20)

\* C24: the Crawlability score is 70, less 30 for a login word and 20 for a
\* paywall word in the text, plus 20 for an open-access word, plus 15 for a
\* title that is not empty and carries no error-page marker, held between 10
\* and 100: a record with an empty title does not receive the 15 points.
C24_CrawlabilityScore ==
    Visibility =>
        /\ out.factors[1].factor = "Public Crawlability"
        /\ out.factors[1].score =
               Max2(10, Min2(100,
                   AccessPoints(pages[1].content)
                       + Points(pages[1].title # "" /\ ~ErrorTitle(pages[1].title), 15)))

\* a record with an empty title and an open-access text scores 90
C24_EmptyTitleNoBonus ==
    /\ Visibility
    /\ pages[1].title = ""
    /\ pages[1].content = OpenContent
    /\ out.factors[1].score = 90

\* C24 as first stated: every record whose title carries no error-page
\* marker, a record with an empty title included, receives the 15 points.
C24_BonusWithoutMarker ==
    Visibility =>
        /\ out.factors[1].factor = "Public Crawlability"
        /\ out.factors[1].score =
               Max2(10, Min2(100,
                   AccessPoints(pages[1].content)
                       + Points(~ErrorTitle(pages[1].title), 15)))

\* the factors whose scores differ between the two sides of a comparison
DifferingFactors ==
    {i \in 1..12 :
        out.url1AiVisibility.factors[i].score # out.url2AiVisibility.factors[i].score}

\* the scores the two sides have for a factor
ScoresAt(i) ==
    {out.url1AiVisibility.factors[i].score, out.url2AiVisibility.factors[i].score}

\* C26: when the assessments of the two records differ in the score of one
\* factor only, the visibility difference is at most 9 either way, at most 8
\* when the factor is Schema Markup at 85 against 0, and compareWebsites
\* lists no key difference of the category visibility.
C26_SingleFactorDifference ==
    Comparison /\ Cardinality(DifferingFactors) = 1 =>
        /\ Abs(out.differences.aiVisibilityDiff) <= 9
        /\ DifferingFactors = {7} /\ ScoresAt(7) = {0, 85} =>
               Abs(out.differences.aiVisibilityDiff) <= 8
        /\ \A k \in 1..Len(out.differences.keyDifferences) :
               out.differences.keyDifferences[k].category # "visibility"

\* two records that differ in their schema markup only, 100 against 0:
\* the visibility difference is 9
C26_SchemaOnly ==
    /\ Comparison
    /\ DifferingFactors = {7}
    /\ ScoresAt(7) = {0, 100}
    /\ Abs(out.differences.aiVisibilityDiff) = 9

\* the lowest score of each factor, in the order of the factors
FactorFloors == <<20, 0, 10, 5, 0, 0, 0, 5, 5, 35, 5, 15>>

\* C27: the overall score is never below 8: Crawlability is at least 20,
\* Readability 35, Credibility 15, Content Clarity 10, Scannability, Trusted
\* Entities, Data Extraction and Freshness 5, so the twelve scores add up to
\* at least 100 and the overall score is never 0.
C27_OverallAtLeastEight ==
    Visibility =>
        /\ \A i \in 1..12 : out.factors[i].score >= FactorFloors[i]
        /\ Sum(Scores(out.factors)) >= 100
        /\ out.overallScore >= 8

\* a record on which every factor has its lowest score: the scores add up
\* to 100 and the overall score is 8
C27_AtTheFloor ==
    /\ Visibility
    /\ Scores(out.factors) = FactorFloors
    /\ out.overallScore = 8

\* the call returned a result of the type with the title
Reported(type, title) ==
    \E i \in 1..Len(out.results) :
        out.results[i].type = type /\ out.results[i].title = title

\* the record analysed, without its schema markup
Unmarked == [pages[1] EXCEPT !.hasSchema = FALSE]

\* C28: the three analyzers agree on schema presence, each with the
\* hasSchema flag of the record: the traditional SEO schema check succeeds
\* and adds 15 exactly when the flag is set, the GEO schema check succeeds
\* and adds 20 exactly when it is set, the Schema Markup factor is at least
\* 50 and not in fail exactly when it is set, and the recommendation
\* Implement Structured Data is returned exactly when it is not set.
C28_SchemaPresenceAgreed ==
    LET hasSchema == pages[1].hasSchema
    IN  /\ op = "analyzeTraditionalSeo" =>
               /\ Reported("success", "Schema markup present") <=> hasSchema
               /\ Reported("warning", "No schema markup found") <=> ~hasSchema
               /\ out.score
                      = Min2(100, analyzeTraditionalSeo(Unmarked).score
                                      + Points(hasSchema, 15))
        /\ op = "analyzeGeo" =>
               /\ Reported("success", "Schema markup enhances AI understanding")
                      <=> hasSchema
               /\ Reported("error", "Missing schema markup") <=> ~hasSchema
               /\ out.score
                      = Min2(100, analyzeGeo(Unmarked).score + Points(hasSchema, 20))
        /\ Visibility =>
               /\ out.factors[7].factor = "Schema Markup"
               /\ out.factors[7].score >= 50 <=> hasSchema
               /\ out.factors[7].status # "fail" <=> hasSchema
               /\ (\E k \in 1..Len(out.recommendations) :
                      out.recommendations[k].action = "Implement Structured Data")
                      <=> ~hasSchema

\* the GEO analysis of a record with schema markup of no known type: the
\* schema check succeeds
C28_MarkupWithoutTypes ==
    /\ op = "analyzeGeo"
    /\ pages[1].hasSchema /\ pages[1].schemaTypes = <<>>
    /\ Reported("success", "Schema markup enhances AI understanding")
    /\ out.score = analyzeGeo(Unmarked).score + 20

\* the request has passed its scrapes: its reports are stored
Succeeded(r) == requests[r].pc = "stored" \/ requests[r].status = 200

\* the places where a request that succeeded names the url
NamedBy(url) ==
    {rk \in (1..Len(requests)) \X (1..2) :
        /\ Succeeded(rk[1])
        /\ rk[2] <= Len(requests[rk[1]].body.urls)
        /\ requests[rk[1]].body.urls[rk[2]] = url}

\* the ids of the reports stored for the url
StoredFor(url) == {id \in DOMAIN reports : reports[id].url = url}

\* the urls the requests name
UrlsNamed ==
    {requests[r].body.urls[k] : r \in 1..Len(requests), k \in 1..1}
        \cup {requests[r].body.urls[Len(requests[r].body.urls)] : r \in 1..Len(requests)}

FailedEarly(q) ==
    \/ ~parses(q.body)
    \/ \E k \in 1..Len(q.scrapes) : q.scrapes[k] = Rejected

\* C29: a request whose body does not parse or one of whose scrapes fails is
\* answered 400 and has created no report; reports are created only by
\* requests all of whose scrapes have succeeded, one for each URL, and the
\* store holds these reports and no others.
C29_FailuresCreateNothing ==
    /\ \A r \in 1..Len(requests) :
          LET q == requests[r]
          IN  /\ FailedEarly(q) => q.pc = "done" /\ q.status = 400 /\ q.made = <<>>
              /\ q.made # <<>> =>
                     /\ Len(q.made) = Len(q.body.urls)
                     /\ \A k \in 1..Len(q.scrapes) : q.scrapes[k].state = "fulfilled"
                     /\ \A k \in 1..Len(q.made) :
                            /\ q.made[k].id \in DOMAIN reports
                            /\ reports[q.made[k].id] = q.made[k]
    /\ \A id \in DOMAIN reports :
          \E r \in 1..Len(requests) : \E k \in 1..Len(requests[r].made) :
              requests[r].made[k] = reports[id]

\* a comparison whose first scrape succeeded and whose second failed is
\* answered 400, and the store is empty
C29_SecondScrapeFails ==
    \E r \in 1..Len(requests) :
        /\ requests[r].route = "compare"
        /\ requests[r].scrapes # <<>>
        /\ requests[r].scrapes[1].state = "fulfilled"
        /\ requests[r].scrapes[2] = Rejected
        /\ requests[r].status = 400
        /\ DOMAIN reports = {}

NoReportWhileAnalyzing == ~(isAnalyzing /\ auditReport # Null)

=============================================================================
